---------------------------- MODULE Spec2Model ----------------------------
(***************************************************************************)
(* A model of the four report-extraction scripts of the repository:        *)
(*   outcome_extraction_week1.py    (graduate outcomes, tables)            *)
(*   employment_search_week2.py     (employment-search methods, free text) *)
(*   internship_salary_week3.py     (internship wage statistics, prose)    *)
(*   top_employers_StretchgGoals.py (top employer, university-wide)        *)
(*                                                                         *)
(* Text.  A Python string is modelled as a sequence of tokens.  A token is *)
(* a maximal run of letters (a word), a maximal run of digits (a number)   *)
(* or one other character (" ", ",", ".", "-", "%", ...).  Two strings are *)
(* equal exactly when their token sequences are equal.  Case folding and   *)
(* the numeric value of a digit run are tables over the vocabulary the     *)
(* model's inputs are written in.                                          *)
(***************************************************************************)
EXTENDS Integers, Sequences, FiniteSets, TLC

-----------------------------------------------------------------------------
(* The state of a run *)

VARIABLES
    script,        \* which of the four scripts runs
    chars,         \* the tables of str.lower, len, int and "in" on the
                   \* words of the vocabulary
    unit_lookup,   \* the module-level dict unit_lookup of the script
    extracted,     \* per page of the catalogue, what the script's page
                   \* functions return on it
    files,         \* the report folder, in the order the script iterates it
    fi,            \* how many files the main loop has taken
    nxt,           \* the page the page loop takes next (0: none left)
    page_index,    \* how many pages of the open document have been taken
    npages,        \* the pages read so far, for MaxPages
    current_unit,  \* the unit carried across the pages of the open document
    rows,          \* the module-level list rows
    phase,         \* "start", "reading", then "done" (CSV written) or "crashed"
    arg,           \* the argument of a function called on its own
    ret,           \* what that call returned
    out,           \* the rows of the CSV file
    faults,        \* the faults the document reader has raised so far
    parser,        \* the locals of parse_ep_from_text while its loop runs
    extractor      \* the locals of extract_top_employer while its loops run

\* parser while parse_ep_from_text is not running
NoParser == <<>>

\* extractor while extract_top_employer is not running
NoExtractor == <<>>

vars == <<script, chars, unit_lookup, arg, ret, extracted, files, fi, nxt,
          page_index, npages, current_unit, rows, phase, out, faults,
          parser, extractor>>

-----------------------------------------------------------------------------
(* The vocabulary: the words and digit runs the texts are made of *)

\* the lower-case form of the words that hold a capital
LowerTable ==
    ("A" :> "a")
    @@ ("AGNR" :> "agnr")
    @@ ("ARCH" :> "arch")
    @@ ("ARHU" :> "arhu")
    @@ ("Agriculture" :> "agriculture")
    @@ ("Amazon" :> "amazon")
    @@ ("Architecture" :> "architecture")
    @@ ("Arts" :> "arts")
    @@ ("BMGT" :> "bmgt")
    @@ ("BSOS" :> "bsos")
    @@ ("Based" :> "based")
    @@ ("Behavioral" :> "behavioral")
    @@ ("Business" :> "business")
    @@ ("CMNS" :> "cmns")
    @@ ("CPS" :> "cps")
    @@ ("Campus" :> "campus")
    @@ ("Career" :> "career")
    @@ ("Clark" :> "clark")
    @@ ("Class" :> "class")
    @@ ("Co" :> "co")
    @@ ("College" :> "college")
    @@ ("Computer" :> "computer")
    @@ ("Coop" :> "coop")
    @@ ("Deloitte" :> "deloitte")
    @@ ("Distribution" :> "distribution")
    @@ ("Division" :> "division")
    @@ ("EDUC" :> "educ")
    @@ ("EMPLOYERS" :> "employers")
    @@ ("ENGR" :> "engr")
    @@ ("Education" :> "education")
    @@ ("Employed" :> "employed")
    @@ ("Employers" :> "employers")
    @@ ("Employment" :> "employment")
    @@ ("Engineering" :> "engineering")
    @@ ("FT" :> "ft")
    @@ ("Fair" :> "fair")
    @@ ("Full" :> "full")
    @@ ("Geographic" :> "geographic")
    @@ ("Graduation" :> "graduation")
    @@ ("H" :> "h")
    @@ ("HNRS" :> "hnrs")
    @@ ("Handshake" :> "handshake")
    @@ ("Health" :> "health")
    @@ ("Honors" :> "honors")
    @@ ("Humanities" :> "humanities")
    @@ ("INFO" :> "info")
    @@ ("Information" :> "information")
    @@ ("International" :> "international")
    @@ ("Internship" :> "internship")
    @@ ("Internships" :> "internships")
    @@ ("JOUR" :> "jour")
    @@ ("James" :> "james")
    @@ ("Journalism" :> "journalism")
    @@ ("LESC" :> "lesc")
    @@ ("LTSC" :> "ltsc")
    @@ ("Letters" :> "letters")
    @@ ("Mathematical" :> "mathematical")
    @@ ("Merrill" :> "merrill")
    @@ ("Method" :> "method")
    @@ ("Military" :> "military")
    @@ ("Natural" :> "natural")
    @@ ("Newspaper" :> "newspaper")
    @@ ("Non" :> "non")
    @@ ("Not" :> "not")
    @@ ("OTHER" :> "other")
    @@ ("OVERALL" :> "overall")
    @@ ("Of" :> "of")
    @@ ("Off" :> "off")
    @@ ("Office" :> "office")
    @@ ("On" :> "on")
    @@ ("One" :> "one")
    @@ ("Online" :> "online")
    @@ ("Other" :> "other")
    @@ ("Outcome" :> "outcome")
    @@ ("PAGE" :> "page")
    @@ ("PLCY" :> "plcy")
    @@ ("PPOL" :> "ppol")
    @@ ("PT" :> "pt")
    @@ ("Park" :> "park")
    @@ ("Pay" :> "pay")
    @@ ("Philip" :> "philip")
    @@ ("Phillip" :> "phillip")
    @@ ("Planning" :> "planning")
    @@ ("Policy" :> "policy")
    @@ ("Preservation" :> "preservation")
    @@ ("Public" :> "public")
    @@ ("Referral" :> "referral")
    @@ ("Report" :> "report")
    @@ ("Reported" :> "reported")
    @@ ("Resources" :> "resources")
    @@ ("Robert" :> "robert")
    @@ ("SPHL" :> "sphl")
    @@ ("Salary" :> "salary")
    @@ ("Sample" :> "sample")
    @@ ("Scholars" :> "scholars")
    @@ ("School" :> "school")
    @@ ("Sciences" :> "sciences")
    @@ ("Search" :> "search")
    @@ ("Seeking" :> "seeking")
    @@ ("Smith" :> "smith")
    @@ ("Social" :> "social")
    @@ ("Studies" :> "studies")
    @@ ("Summary" :> "summary")
    @@ ("Survey" :> "survey")
    @@ ("TOP" :> "top")
    @@ ("TOTAL" :> "total")
    @@ ("The" :> "the")
    @@ ("Time" :> "time")
    @@ ("Too" :> "too")
    @@ ("Top" :> "top")
    @@ ("Total" :> "total")
    @@ ("UGS" :> "ugs")
    @@ ("UGST" :> "ugst")
    @@ ("UMD" :> "umd")
    @@ ("Undergraduate" :> "undergraduate")
    @@ ("University" :> "university")
    @@ ("Unplaced" :> "unplaced")
    @@ ("Unresolved" :> "unresolved")
    @@ ("Used" :> "used")
    @@ ("Volunteering" :> "volunteering")
    @@ ("Web" :> "web")

\* the value of the digit runs
IntTable ==
    ("0" :> 0)
    @@ ("1" :> 1)
    @@ ("2" :> 2)
    @@ ("3" :> 3)
    @@ ("4" :> 4)
    @@ ("5" :> 5)
    @@ ("6" :> 6)
    @@ ("7" :> 7)
    @@ ("8" :> 8)
    @@ ("9" :> 9)
    @@ ("00" :> 0)
    @@ ("10" :> 10)
    @@ ("15" :> 15)
    @@ ("17" :> 17)
    @@ ("18" :> 18)
    @@ ("20" :> 20)
    @@ ("25" :> 25)
    @@ ("30" :> 30)
    @@ ("40" :> 40)
    @@ ("45" :> 45)
    @@ ("50" :> 50)
    @@ ("63" :> 63)
    @@ ("041" :> 41)
    @@ ("100" :> 100)
    @@ ("120" :> 120)
    @@ ("200" :> 200)
    @@ ("250" :> 250)
    @@ ("2018" :> 2018)
    @@ ("2019" :> 2019)
    @@ ("2020" :> 2020)

\* the number of characters of the tokens longer than one character
LenTable ==
    ("AGNR" :> 4)
    @@ ("ARCH" :> 4)
    @@ ("ARHU" :> 4)
    @@ ("Agriculture" :> 11)
    @@ ("Amazon" :> 6)
    @@ ("Architecture" :> 12)
    @@ ("Arts" :> 4)
    @@ ("BMGT" :> 4)
    @@ ("BSOS" :> 4)
    @@ ("Based" :> 5)
    @@ ("Behavioral" :> 10)
    @@ ("Business" :> 8)
    @@ ("CMNS" :> 4)
    @@ ("CPS" :> 3)
    @@ ("Campus" :> 6)
    @@ ("Career" :> 6)
    @@ ("Clark" :> 5)
    @@ ("Class" :> 5)
    @@ ("Co" :> 2)
    @@ ("College" :> 7)
    @@ ("Computer" :> 8)
    @@ ("Coop" :> 4)
    @@ ("Deloitte" :> 8)
    @@ ("Distribution" :> 12)
    @@ ("Division" :> 8)
    @@ ("EDUC" :> 4)
    @@ ("EMPLOYERS" :> 9)
    @@ ("ENGR" :> 4)
    @@ ("Education" :> 9)
    @@ ("Employed" :> 8)
    @@ ("Employers" :> 9)
    @@ ("Employment" :> 10)
    @@ ("Engineering" :> 11)
    @@ ("FT" :> 2)
    @@ ("Fair" :> 4)
    @@ ("Full" :> 4)
    @@ ("Geographic" :> 10)
    @@ ("Graduation" :> 10)
    @@ ("HNRS" :> 4)
    @@ ("Handshake" :> 9)
    @@ ("Health" :> 6)
    @@ ("Honors" :> 6)
    @@ ("Humanities" :> 10)
    @@ ("INFO" :> 4)
    @@ ("Information" :> 11)
    @@ ("International" :> 13)
    @@ ("Internship" :> 10)
    @@ ("Internships" :> 11)
    @@ ("JOUR" :> 4)
    @@ ("James" :> 5)
    @@ ("Journalism" :> 10)
    @@ ("LESC" :> 4)
    @@ ("LTSC" :> 4)
    @@ ("Letters" :> 7)
    @@ ("Mathematical" :> 12)
    @@ ("Merrill" :> 7)
    @@ ("Method" :> 6)
    @@ ("Military" :> 8)
    @@ ("Natural" :> 7)
    @@ ("Newspaper" :> 9)
    @@ ("Non" :> 3)
    @@ ("Not" :> 3)
    @@ ("OTHER" :> 5)
    @@ ("OVERALL" :> 7)
    @@ ("Of" :> 2)
    @@ ("Off" :> 3)
    @@ ("Office" :> 6)
    @@ ("On" :> 2)
    @@ ("One" :> 3)
    @@ ("Online" :> 6)
    @@ ("Other" :> 5)
    @@ ("Outcome" :> 7)
    @@ ("PAGE" :> 4)
    @@ ("PLCY" :> 4)
    @@ ("PPOL" :> 4)
    @@ ("PT" :> 2)
    @@ ("Park" :> 4)
    @@ ("Pay" :> 3)
    @@ ("Philip" :> 6)
    @@ ("Phillip" :> 7)
    @@ ("Planning" :> 8)
    @@ ("Policy" :> 6)
    @@ ("Preservation" :> 12)
    @@ ("Public" :> 6)
    @@ ("Referral" :> 8)
    @@ ("Report" :> 6)
    @@ ("Reported" :> 8)
    @@ ("Resources" :> 9)
    @@ ("Robert" :> 6)
    @@ ("SPHL" :> 4)
    @@ ("Salary" :> 6)
    @@ ("Sample" :> 6)
    @@ ("Scholars" :> 8)
    @@ ("School" :> 6)
    @@ ("Sciences" :> 8)
    @@ ("Search" :> 6)
    @@ ("Seeking" :> 7)
    @@ ("Smith" :> 5)
    @@ ("Social" :> 6)
    @@ ("Studies" :> 7)
    @@ ("Summary" :> 7)
    @@ ("Survey" :> 6)
    @@ ("TOP" :> 3)
    @@ ("TOTAL" :> 5)
    @@ ("The" :> 3)
    @@ ("Time" :> 4)
    @@ ("Too" :> 3)
    @@ ("Top" :> 3)
    @@ ("Total" :> 5)
    @@ ("UGS" :> 3)
    @@ ("UGST" :> 4)
    @@ ("UMD" :> 3)
    @@ ("Undergraduate" :> 13)
    @@ ("University" :> 10)
    @@ ("Unplaced" :> 8)
    @@ ("Unresolved" :> 10)
    @@ ("Used" :> 4)
    @@ ("Volunteering" :> 12)
    @@ ("Web" :> 3)
    @@ ("aborted" :> 7)
    @@ ("an" :> 2)
    @@ ("and" :> 3)
    @@ ("as" :> 2)
    @@ ("average" :> 7)
    @@ ("based" :> 5)
    @@ ("been" :> 4)
    @@ ("before" :> 6)
    @@ ("below" :> 5)
    @@ ("between" :> 7)
    @@ ("blank" :> 5)
    @@ ("both" :> 4)
    @@ ("break" :> 5)
    @@ ("business" :> 8)
    @@ ("call" :> 4)
    @@ ("campus" :> 6)
    @@ ("career" :> 6)
    @@ ("careers" :> 7)
    @@ ("classroom" :> 9)
    @@ ("co" :> 2)
    @@ ("collected" :> 9)
    @@ ("company" :> 7)
    @@ ("compensation" :> 12)
    @@ ("contact" :> 7)
    @@ ("continue" :> 8)
    @@ ("continuing" :> 10)
    @@ ("coop" :> 4)
    @@ ("crashed" :> 7)
    @@ ("currently" :> 9)
    @@ ("data" :> 4)
    @@ ("distribution" :> 12)
    @@ ("done" :> 4)
    @@ ("education" :> 9)
    @@ ("employed" :> 8)
    @@ ("employers" :> 9)
    @@ ("employment" :> 10)
    @@ ("experience" :> 10)
    @@ ("experiences" :> 11)
    @@ ("faculty" :> 7)
    @@ ("fair" :> 4)
    @@ ("fairs" :> 5)
    @@ ("family" :> 6)
    @@ ("few" :> 3)
    @@ ("find" :> 4)
    @@ ("for" :> 3)
    @@ ("friends" :> 7)
    @@ ("from" :> 4)
    @@ ("ft" :> 2)
    @@ ("geographic" :> 10)
    @@ ("graduate" :> 8)
    @@ ("graduates" :> 9)
    @@ ("had" :> 3)
    @@ ("handshake" :> 9)
    @@ ("header" :> 6)
    @@ ("hiresmith" :> 9)
    @@ ("hour" :> 4)
    @@ ("hourly" :> 6)
    @@ ("in" :> 2)
    @@ ("include" :> 7)
    @@ ("included" :> 8)
    @@ ("inline" :> 6)
    @@ ("intern" :> 6)
    @@ ("internship" :> 10)
    @@ ("internships" :> 11)
    @@ ("interview" :> 9)
    @@ ("is" :> 2)
    @@ ("job" :> 3)
    @@ ("jobsite" :> 7)
    @@ ("knowledge" :> 9)
    @@ ("label" :> 5)
    @@ ("lookahead" :> 9)
    @@ ("maryland" :> 8)
    @@ ("mean" :> 4)
    @@ ("media" :> 5)
    @@ ("median" :> 6)
    @@ ("method" :> 6)
    @@ ("methods" :> 7)
    @@ ("military" :> 8)
    @@ ("missing" :> 7)
    @@ ("name" :> 4)
    @@ ("newspaper" :> 9)
    @@ ("no" :> 2)
    @@ ("non" :> 3)
    @@ ("none" :> 4)
    @@ ("not" :> 3)
    @@ ("of" :> 2)
    @@ ("off" :> 3)
    @@ ("on" :> 2)
    @@ ("one" :> 3)
    @@ ("online" :> 6)
    @@ ("op" :> 2)
    @@ ("open" :> 4)
    @@ ("other" :> 5)
    @@ ("out" :> 3)
    @@ ("outcome" :> 7)
    @@ ("outcomes" :> 8)
    @@ ("overall" :> 7)
    @@ ("page" :> 4)
    @@ ("pages" :> 5)
    @@ ("paid" :> 4)
    @@ ("participation" :> 13)
    @@ ("pdf" :> 3)
    @@ ("per" :> 3)
    @@ ("placement" :> 9)
    @@ ("prefix" :> 6)
    @@ ("program" :> 7)
    @@ ("pt" :> 2)
    @@ ("rate" :> 4)
    @@ ("reading" :> 7)
    @@ ("report" :> 6)
    @@ ("reported" :> 8)
    @@ ("response" :> 8)
    @@ ("responses" :> 9)
    @@ ("returned" :> 8)
    @@ ("salary" :> 6)
    @@ ("sample" :> 6)
    @@ ("scan" :> 4)
    @@ ("search" :> 6)
    @@ ("seeking" :> 7)
    @@ ("service" :> 7)
    @@ ("serving" :> 7)
    @@ ("site" :> 4)
    @@ ("social" :> 6)
    @@ ("staff" :> 5)
    @@ ("start" :> 5)
    @@ ("starting" :> 8)
    @@ ("stop" :> 4)
    @@ ("suffix" :> 6)
    @@ ("survey" :> 6)
    @@ ("terps" :> 5)
    @@ ("that" :> 4)
    @@ ("the" :> 3)
    @@ ("to" :> 2)
    @@ ("too" :> 3)
    @@ ("top" :> 3)
    @@ ("total" :> 5)
    @@ ("umd" :> 3)
    @@ ("university" :> 10)
    @@ ("universitywide" :> 14)
    @@ ("unpaid" :> 6)
    @@ ("unplaced" :> 8)
    @@ ("unresolved" :> 10)
    @@ ("used" :> 4)
    @@ ("value" :> 5)
    @@ ("via" :> 3)
    @@ ("virtual" :> 7)
    @@ ("volunteer" :> 9)
    @@ ("volunteering" :> 12)
    @@ ("wage" :> 4)
    @@ ("was" :> 3)
    @@ ("website" :> 7)
    @@ ("were" :> 4)
    @@ ("whole" :> 5)
    @@ ("wide" :> 4)
    @@ ("with" :> 4)
    @@ ("yes" :> 3)
    @@ ("00" :> 2)
    @@ ("10" :> 2)
    @@ ("15" :> 2)
    @@ ("17" :> 2)
    @@ ("18" :> 2)
    @@ ("20" :> 2)
    @@ ("25" :> 2)
    @@ ("30" :> 2)
    @@ ("40" :> 2)
    @@ ("45" :> 2)
    @@ ("50" :> 2)
    @@ ("63" :> 2)
    @@ ("041" :> 3)
    @@ ("100" :> 3)
    @@ ("120" :> 3)
    @@ ("200" :> 3)
    @@ ("250" :> 3)
    @@ ("2018" :> 4)
    @@ ("2019" :> 4)
    @@ ("2020" :> 4)

\* the pairs (a, b) of distinct words and digit runs of which a is a
\* substring of b, with the place of a in b
SubTable ==
    (<<"00", "100">> :> "suffix")
    @@ (<<"10", "100">> :> "prefix")
    @@ (<<"20", "120">> :> "suffix")
    @@ (<<"00", "200">> :> "suffix")
    @@ (<<"20", "200">> :> "prefix")
    @@ (<<"18", "2018">> :> "suffix")
    @@ (<<"20", "2018">> :> "prefix")
    @@ (<<"20", "2019">> :> "prefix")
    @@ (<<"20", "2020">> :> "both")
    @@ (<<"25", "250">> :> "prefix")
    @@ (<<"50", "250">> :> "suffix")
    @@ (<<"on", "amazon">> :> "suffix")
    @@ (<<"an", "and">> :> "prefix")
    @@ (<<"arch", "architecture">> :> "prefix")
    @@ (<<"as", "based">> :> "inner")
    @@ (<<"for", "before">> :> "inner")
    @@ (<<"an", "blank">> :> "inner")
    @@ (<<"in", "business">> :> "inner")
    @@ (<<"career", "careers">> :> "prefix")
    @@ (<<"as", "class">> :> "inner")
    @@ (<<"as", "classroom">> :> "inner")
    @@ (<<"class", "classroom">> :> "prefix")
    @@ (<<"co", "collected">> :> "prefix")
    @@ (<<"co", "college">> :> "prefix")
    @@ (<<"an", "company">> :> "inner")
    @@ (<<"co", "company">> :> "prefix")
    @@ (<<"co", "compensation">> :> "prefix")
    @@ (<<"on", "compensation">> :> "suffix")
    @@ (<<"co", "computer">> :> "prefix")
    @@ (<<"co", "contact">> :> "prefix")
    @@ (<<"on", "contact">> :> "inner")
    @@ (<<"co", "continue">> :> "prefix")
    @@ (<<"in", "continue">> :> "inner")
    @@ (<<"on", "continue">> :> "inner")
    @@ (<<"co", "continuing">> :> "prefix")
    @@ (<<"in", "continuing">> :> "inner")
    @@ (<<"on", "continuing">> :> "inner")
    @@ (<<"co", "coop">> :> "prefix")
    @@ (<<"op", "coop">> :> "suffix")
    @@ (<<"as", "crashed">> :> "inner")
    @@ (<<"is", "distribution">> :> "inner")
    @@ (<<"on", "distribution">> :> "suffix")
    @@ (<<"is", "division">> :> "inner")
    @@ (<<"on", "division">> :> "suffix")
    @@ (<<"on", "done">> :> "inner")
    @@ (<<"one", "done">> :> "suffix")
    @@ (<<"educ", "education">> :> "prefix")
    @@ (<<"on", "education">> :> "suffix")
    @@ (<<"in", "engineering">> :> "inner")
    @@ (<<"per", "experience">> :> "inner")
    @@ (<<"experience", "experiences">> :> "prefix")
    @@ (<<"per", "experiences">> :> "inner")
    @@ (<<"fair", "fairs">> :> "prefix")
    @@ (<<"in", "find">> :> "inner")
    @@ (<<"graduate", "graduates">> :> "prefix")
    @@ (<<"on", "graduation">> :> "suffix")
    @@ (<<"an", "handshake">> :> "inner")
    @@ (<<"and", "handshake">> :> "inner")
    @@ (<<"smith", "hiresmith">> :> "suffix")
    @@ (<<"no", "honors">> :> "inner")
    @@ (<<"on", "honors">> :> "inner")
    @@ (<<"hour", "hourly">> :> "prefix")
    @@ (<<"an", "humanities">> :> "inner")
    @@ (<<"in", "include">> :> "prefix")
    @@ (<<"in", "included">> :> "prefix")
    @@ (<<"include", "included">> :> "prefix")
    @@ (<<"in", "info">> :> "prefix")
    @@ (<<"for", "information">> :> "inner")
    @@ (<<"in", "information">> :> "prefix")
    @@ (<<"info", "information">> :> "prefix")
    @@ (<<"on", "information">> :> "suffix")
    @@ (<<"in", "inline">> :> "prefix")
    @@ (<<"in", "intern">> :> "prefix")
    @@ (<<"in", "international">> :> "prefix")
    @@ (<<"intern", "international">> :> "prefix")
    @@ (<<"on", "international">> :> "inner")
    @@ (<<"in", "internship">> :> "prefix")
    @@ (<<"intern", "internship">> :> "prefix")
    @@ (<<"in", "internships">> :> "prefix")
    @@ (<<"intern", "internships">> :> "prefix")
    @@ (<<"internship", "internships">> :> "prefix")
    @@ (<<"in", "interview">> :> "prefix")
    @@ (<<"job", "jobsite">> :> "prefix")
    @@ (<<"site", "jobsite">> :> "suffix")
    @@ (<<"is", "journalism">> :> "inner")
    @@ (<<"jour", "journalism">> :> "prefix")
    @@ (<<"no", "knowledge">> :> "inner")
    @@ (<<"an", "maryland">> :> "inner")
    @@ (<<"and", "maryland">> :> "suffix")
    @@ (<<"the", "mathematical">> :> "inner")
    @@ (<<"an", "mean">> :> "suffix")
    @@ (<<"an", "median">> :> "suffix")
    @@ (<<"media", "median">> :> "prefix")
    @@ (<<"method", "methods">> :> "prefix")
    @@ (<<"in", "missing">> :> "inner")
    @@ (<<"is", "missing">> :> "inner")
    @@ (<<"per", "newspaper">> :> "suffix")
    @@ (<<"no", "non">> :> "prefix")
    @@ (<<"on", "non">> :> "suffix")
    @@ (<<"no", "none">> :> "prefix")
    @@ (<<"non", "none">> :> "prefix")
    @@ (<<"on", "none">> :> "inner")
    @@ (<<"one", "none">> :> "suffix")
    @@ (<<"no", "not">> :> "prefix")
    @@ (<<"of", "off">> :> "prefix")
    @@ (<<"of", "office">> :> "prefix")
    @@ (<<"off", "office">> :> "prefix")
    @@ (<<"on", "one">> :> "prefix")
    @@ (<<"in", "online">> :> "inner")
    @@ (<<"on", "online">> :> "prefix")
    @@ (<<"op", "open">> :> "prefix")
    @@ (<<"the", "other">> :> "inner")
    @@ (<<"co", "outcome">> :> "inner")
    @@ (<<"out", "outcome">> :> "prefix")
    @@ (<<"co", "outcomes">> :> "inner")
    @@ (<<"out", "outcomes">> :> "prefix")
    @@ (<<"outcome", "outcomes">> :> "prefix")
    @@ (<<"page", "pages">> :> "prefix")
    @@ (<<"on", "participation">> :> "suffix")
    @@ (<<"an", "planning">> :> "inner")
    @@ (<<"in", "planning">> :> "inner")
    @@ (<<"on", "preservation">> :> "suffix")
    @@ (<<"in", "reading">> :> "inner")
    @@ (<<"report", "reported">> :> "prefix")
    @@ (<<"on", "response">> :> "inner")
    @@ (<<"on", "responses">> :> "inner")
    @@ (<<"response", "responses">> :> "prefix")
    @@ (<<"an", "scan">> :> "suffix")
    @@ (<<"arch", "search">> :> "suffix")
    @@ (<<"in", "seeking">> :> "inner")
    @@ (<<"in", "serving">> :> "inner")
    @@ (<<"in", "starting">> :> "inner")
    @@ (<<"start", "starting">> :> "prefix")
    @@ (<<"op", "stop">> :> "suffix")
    @@ (<<"to", "stop">> :> "inner")
    @@ (<<"top", "stop">> :> "suffix")
    @@ (<<"to", "too">> :> "prefix")
    @@ (<<"op", "top">> :> "suffix")
    @@ (<<"to", "top">> :> "prefix")
    @@ (<<"to", "total">> :> "prefix")
    @@ (<<"ugs", "ugst">> :> "prefix")
    @@ (<<"graduate", "undergraduate">> :> "suffix")
    @@ (<<"university", "universitywide">> :> "prefix")
    @@ (<<"wide", "universitywide">> :> "suffix")
    @@ (<<"paid", "unpaid">> :> "suffix")
    @@ (<<"in", "volunteering">> :> "inner")
    @@ (<<"volunteer", "volunteering">> :> "prefix")
    @@ (<<"as", "was">> :> "suffix")
    @@ (<<"site", "website">> :> "suffix")
    @@ (<<"web", "website">> :> "prefix")

\* the tables of the string operations, as the run holds them
CharTables ==
    [capitals |-> DOMAIN LowerTable, lower |-> LowerTable,
     digits |-> DOMAIN IntTable, int |-> IntTable,
     long |-> DOMAIN LenTable, len |-> LenTable,
     pairs |-> DOMAIN SubTable, sub |-> SubTable]

-----------------------------------------------------------------------------
(* Characters and tokens *)

\* en dash and em dash (U+2013, U+2014) as tokens of their own
EN_DASH == "<en-dash>"
EM_DASH == "<em-dash>"

\* str.lower() of one token: the lower-case form of the words of the
\* vocabulary that hold a capital; every other token is its own
Lower(t) == IF t \in chars.capitals THEN chars.lower[t] ELSE t

\* s.lower()
LowerStr(s) == SubSeq([i \in 1..Len(s) |-> Lower(s[i])], 1, Len(s))

\* int() of the digit runs of the vocabulary
IntOf(t) == IF t \in chars.digits THEN chars.int[t] ELSE 0

\* the digit runs of the vocabulary
DigitToks == chars.digits

\* str.isdigit() of one token
IsDigitTok(t) == t \in DigitToks

\* len(t) of one token: the letters of a word, the digits of a digit run,
\* one for any other character
TokLen(t) == IF t \in chars.long THEN chars.len[t] ELSE 1

\* \s of the regular expressions, and what str.strip() removes
IsSpaceTok(t) == t = " "

\* one character that is neither a letter, a digit nor white space
PunctToks ==
    {",", ".", "-", EN_DASH, EM_DASH, "&", "%", "<", ">", "$", "#", ":", "/",
     "?", "!", "(", ")", "_", "+", "'", ";", "=", "*", "|"}

\* a run of letters: [A-Za-z]+
IsWordTok(t) == ~IsDigitTok(t) /\ ~IsSpaceTok(t) /\ t \notin PunctToks

-----------------------------------------------------------------------------
(* String helpers *)

RECURSIVE LStrip(_)
LStrip(s) == IF s # <<>> /\ IsSpaceTok(Head(s)) THEN LStrip(Tail(s)) ELSE s

RECURSIVE RStrip(_)
RStrip(s) ==
    IF s # <<>> /\ IsSpaceTok(s[Len(s)])
    THEN RStrip(SubSeq(s, 1, Len(s) - 1))
    ELSE s

\* s.strip()
Strip(s) == RStrip(LStrip(s))

\* "".join(pieces[lo:hi]), by halves
RECURSIVE Concat(_, _, _)
Concat(pieces, lo, hi) ==
    IF lo > hi THEN <<>>
    ELSE IF lo = hi THEN pieces[lo]
    ELSE Concat(pieces, lo, (lo + hi) \div 2)
         \o Concat(pieces, (lo + hi) \div 2 + 1, hi)

\* "".join(pieces)
Flat(pieces) == Concat(pieces, 1, Len(pieces))

\* re.sub(r"\s+", " ", s): every run of white space becomes one space
CollapseWs(s) ==
    Flat([i \in 1..Len(s) |->
            IF IsSpaceTok(s[i]) /\ i > 1 /\ IsSpaceTok(s[i - 1])
            THEN <<>> ELSE <<s[i]>>])

\* s.replace(a, b) for a single token a and a token sequence b
ReplaceTok(s, a, b) ==
    Flat([i \in 1..Len(s) |-> IF s[i] = a THEN b ELSE <<s[i]>>])

\* s.replace("–", "-").replace("—", "-")
FixDashes(s) == ReplaceTok(ReplaceTok(s, EN_DASH, <<"-">>), EM_DASH, <<"-">>)

\* the tokens of s that satisfy no separator test: s.split() of a string
\* whose separators are single spaces
Words(s) == SelectSeq(s, LAMBDA t : ~IsSpaceTok(t))

\* how the word (or digit run) a lies in the word b of the vocabulary:
\* "whole" (a = b), "prefix", "suffix", "both", "inner", or "no" when a
\* is no substring of b.  Single letters are matched as whole tokens only
SubWord(a, b) ==
    IF a = b THEN "whole"
    ELSE IF <<a, b>> \in chars.pairs THEN chars.sub[<<a, b>>]
    ELSE "no"

\* whether pat occurs in s with its first token in token i of s: the first
\* token of pat may be the end of s[i] and its last the start of a token
OccursAt(s, pat, i) ==
    /\ i >= 1
    /\ i + Len(pat) - 1 <= Len(s)
    /\ IF Len(pat) = 1 THEN SubWord(pat[1], s[i]) # "no"
       ELSE /\ SubWord(pat[1], s[i]) \in {"whole", "suffix", "both"}
            /\ SubWord(pat[Len(pat)], s[i + Len(pat) - 1])
                  \in {"whole", "prefix", "both"}
            /\ \A j \in 2..(Len(pat) - 1) : s[i + j - 1] = pat[j]

\* pat in s, for a non-empty pat
Contains(s, pat) == \E i \in 1..(Len(s) - Len(pat) + 1) : OccursAt(s, pat, i)

-----------------------------------------------------------------------------
(* The unit enumeration (identical in the three grid scripts) *)

U_UW == <<"University", "-", "wide">>
U_AGNR ==
    <<"College", " ", "of", " ", "Agriculture", " ", "and", " ", "Natural",
      " ", "Resources">>
U_ARHU == <<"College", " ", "of", " ", "Arts", " ", "and", " ", "Humanities">>
U_BSOS ==
    <<"College", " ", "of", " ", "Behavioral", " ", "and", " ", "Social",
      " ", "Sciences">>
U_CMNS ==
    <<"College", " ", "of", " ", "Computer", ",", " ", "Mathematical", ",",
      " ", "and", " ", "Natural", " ", "Sciences">>
U_EDUC == <<"College", " ", "of", " ", "Education">>
U_INFO == <<"College", " ", "of", " ", "Information">>
U_ENGR ==
    <<"The", " ", "A", ".", " ", "James", " ", "Clark", " ", "School", " ",
      "of", " ", "Engineering">>
U_JOUR ==
    <<"Philip", " ", "Merrill", " ", "College", " ", "of", " ", "Journalism">>
U_ARCH ==
    <<"School", " ", "of", " ", "Architecture", ",", " ", "Planning", ",",
      " ", "and", " ", "Preservation">>
U_SPHL == <<"School", " ", "of", " ", "Public", " ", "Health">>
U_PLCY == <<"School", " ", "of", " ", "Public", " ", "Policy">>
U_BMGT ==
    <<"The", " ", "Robert", " ", "H", ".", " ", "Smith", " ", "School", " ",
      "of", " ", "Business">>
U_CPS == <<"College", " ", "Park", " ", "Scholars">>
U_HNRS == <<"Honors", " ", "College">>
U_LTSC == <<"Letters", " ", "and", " ", "Sciences">>
U_UGST == <<"Undergraduate", " ", "Studies">>

unit_order ==
    <<U_UW, U_AGNR, U_ARHU, U_BSOS, U_CMNS, U_EDUC, U_INFO, U_ENGR, U_JOUR,
      U_ARCH, U_SPHL, U_PLCY, U_BMGT, U_CPS, U_HNRS, U_LTSC, U_UGST>>

\* the members of unit_order, for "x in unit_order"
UnitSet == {unit_order[i] : i \in 1..Len(unit_order)}

\* the code of u in pd.Categorical(categories=unit_order), from 1; a string
\* that is no category is NaN, which sort_values puts last
UnitIndex(u) ==
    IF u \in UnitSet THEN CHOOSE i \in 1..Len(unit_order) : unit_order[i] = u
    ELSE Len(unit_order) + 1

\* Python's None (a value no string equals) and the empty string
None == <<"<None>">>
EmptyStr == <<>>

\* the truth value of an optional string: neither None nor ""
Truthy(x) == x # None /\ x # EmptyStr

-----------------------------------------------------------------------------
(* unit_key, unit_lookup, canonicalize_unit *)

\* s.split(): the maximal runs of tokens between white space
SplitWs(s) ==
    LET last(i) == CHOOSE j \in i..Len(s) :
                      /\ \A k \in i..j : ~IsSpaceTok(s[k])
                      /\ (j = Len(s) \/ IsSpaceTok(s[j + 1]))
        words(starts) ==
            SubSeq([k \in 1..Len(starts) |->
                      SubSeq(s, starts[k], last(starts[k]))],
                   1, Len(starts))
    IN words(SelectSeq([i \in 1..Len(s) |-> i],
                       LAMBDA i : /\ ~IsSpaceTok(s[i])
                                  /\ (i = 1 \/ IsSpaceTok(s[i - 1]))))

\* " ".join(parts)
JoinWs(parts) ==
    Flat([k \in 1..Len(parts) |->
            IF k = 1 THEN parts[1] ELSE <<" ">> \o parts[k]])

\* one token of unit_key's input after lower(), the dash replacement,
\* replace("&", " and ") and re.sub(r"[^a-z0-9]+", " ", s)
KeyTok(t) ==
    IF t = "&" THEN <<" ", "and", " ">>
    ELSE IF IsWordTok(t) \/ IsDigitTok(t) THEN <<Lower(t)>>
    ELSE <<" ">>

KeyToks(s) == Flat([i \in 1..Len(s) |-> KeyTok(s[i])])

unit_key(s) ==
    JoinWs(SelectSeq(SplitWs(Strip(CollapseWs(KeyToks(s)))),
                     LAMBDA g : g # <<"and">>))

\* re.search(r"university\s*[- ]\s*wide|universitywide", low) on a string
\* whose white space is already collapsed
HasUniversityWide(low) ==
    \/ Contains(low, <<"university", "-", "wide">>)
    \/ Contains(low, <<"university", " ", "wide">>)
    \/ Contains(low, <<"university", " ", "-", "wide">>)
    \/ Contains(low, <<"university", "-", " ", "wide">>)
    \/ Contains(low, <<"university", " ", "-", " ", "wide">>)
    \/ Contains(low, <<"universitywide">>)

UNIVERSITY_OF_MARYLAND == <<"university", " ", "of", " ", "maryland">>

\* the names entered in unit_lookup after the enumeration itself, in the
\* order of the assignments: <<name whose key is entered, canonical name>>
unit_aliases_emp ==
    << <<<<"Phillip", " ", "Merrill", " ", "College", " ", "of", " ",
          "Journalism">>, U_JOUR>>,
       <<U_JOUR, U_JOUR>>,
       <<<<"Robert", " ", "H", ".", " ", "Smith", " ", "School", " ", "of",
          " ", "Business">>, U_BMGT>>,
       <<<<"Robert", " ", "H", " ", "Smith", " ", "School", " ", "of", " ",
          "Business">>, U_BMGT>>,
       <<<<"Office", " ", "of", " ", "Undergraduate", " ", "Studies">>,
         U_UGST>>,
       <<<<"Division", " ", "of", " ", "Undergraduate", " ", "Studies">>,
         U_UGST>>,
       <<<<"College", " ", "of", " ", "Information", " ", "Studies">>,
         U_INFO>> >>

unit_aliases_wage ==
    << <<<<"Phillip", " ", "Merrill", " ", "College", " ", "of", " ",
          "Journalism">>, U_JOUR>>,
       <<<<"College", " ", "of", " ", "Information", " ", "Studies">>,
         U_INFO>>,
       <<<<"Robert", " ", "H", ".", " ", "Smith", " ", "School", " ", "of",
          " ", "Business">>, U_BMGT>>,
       <<<<"Robert", " ", "H", " ", "Smith", " ", "School", " ", "of", " ",
          "Business">>, U_BMGT>>,
       <<<<"Office", " ", "of", " ", "Undergraduate", " ", "Studies">>,
         U_UGST>>,
       <<<<"Division", " ", "of", " ", "Undergraduate", " ", "Studies">>,
         U_UGST>> >>

unit_aliases_out ==
    << <<<<"Phillip", " ", "Merrill", " ", "College", " ", "of", " ",
          "Journalism">>, U_JOUR>>,
       <<U_JOUR, U_JOUR>> >>

\* a dict built as {unit_key(u): u for u in unit_order} and then assigned
\* the aliases, as the sequence of its <<key, value>> entries
MakeLookup(aliases) ==
    SubSeq([i \in 1..(Len(unit_order) + Len(aliases)) |->
              IF i <= Len(unit_order)
              THEN <<unit_key(unit_order[i]), unit_order[i]>>
              ELSE <<unit_key(aliases[i - Len(unit_order)][1]),
                     aliases[i - Len(unit_order)][2]>>],
           1, Len(unit_order) + Len(aliases))

\* the dict each script builds when it is loaded (the top-employer script
\* has none)
UnitLookup(s) ==
    CASE s = "employment" -> MakeLookup(unit_aliases_emp)
      [] s = "wage" -> MakeLookup(unit_aliases_wage)
      [] s = "outcomes" -> MakeLookup(unit_aliases_out)
      [] OTHER -> <<>>

\* k in d
InLookup(d, k) == \E i \in 1..Len(d) : d[i][1] = k

\* d[k]: a later assignment to a key replaces an earlier one
LookupGet(d, k) ==
    d[CHOOSE i \in 1..Len(d) :
        /\ d[i][1] = k
        /\ \A j \in (i + 1)..Len(d) : d[j][1] # k][2]

\* d[k] if k in d else default
LookupOr(d, k, default) == IF InLookup(d, k) THEN LookupGet(d, k) ELSE default

\* employment search: normalize_unit
normalize_unit_emp(u0) ==
    LET norm(u, low) ==
            IF Contains(low, UNIVERSITY_OF_MARYLAND)
               /\ Contains(low, <<"overall">>)
            THEN U_UW
            ELSE IF HasUniversityWide(low) THEN U_UW
            ELSE IF low = UNIVERSITY_OF_MARYLAND THEN U_UW
            ELSE u
        lower(u) == norm(u, LowerStr(u))
    IN lower(FixDashes(CollapseWs(Strip(u0))))

\* employment search: canonicalize_unit
canonicalize_unit_emp(u0) ==
    LET canon(u) == LookupOr(unit_lookup, unit_key(u), u)
    IN canon(normalize_unit_emp(u0))

\* internship wage: normalize_whitespace
normalize_whitespace(s) == Strip(CollapseWs(s))

\* internship wage: canonicalize_unit
canonicalize_unit_wage(u0) ==
    LET canon(u, low) ==
            IF HasUniversityWide(low) THEN U_UW
            ELSE IF low = UNIVERSITY_OF_MARYLAND THEN U_UW
            ELSE IF Contains(low, UNIVERSITY_OF_MARYLAND)
                    /\ Contains(low, <<"overall">>)
            THEN U_UW
            ELSE LookupOr(unit_lookup, unit_key(u), u)
        lower(u) == canon(u, Strip(LowerStr(u)))
    IN lower(FixDashes(normalize_whitespace(u0)))

\* outcomes: normalize_unit
normalize_unit_out(u0) ==
    LET norm(u, low) ==
            IF HasUniversityWide(low) THEN U_UW
            ELSE IF /\ Contains(low, UNIVERSITY_OF_MARYLAND)
                    /\ \/ Contains(low, <<"university", "-", "wide">>)
                       \/ Contains(low, <<"university", " ", "wide">>)
                       \/ Contains(low, <<"overall">>)
                       \/ Contains(low, <<"graduate", " ", "survey", " ",
                                          "report">>)
            THEN U_UW
            ELSE IF low = UNIVERSITY_OF_MARYLAND THEN U_UW
            ELSE u
        lower(u) == norm(u, LowerStr(u))
    IN lower(FixDashes(CollapseWs(Strip(u0))))

\* len(key) of a key of unit_lookup
RECURSIVE KeyLen(_)
KeyLen(k) == IF k = <<>> THEN 0 ELSE TokLen(Head(k)) + KeyLen(Tail(k))

\* d.items(): one entry per key, at the place the key was first entered,
\* with the value assigned last
DictItems(d) ==
    LET items(firsts) ==
            SubSeq([n \in 1..Len(firsts) |->
                      <<d[firsts[n]][1], LookupGet(d, d[firsts[n]][1])>>],
                   1, Len(firsts))
    IN items(SelectSeq([i \in 1..Len(d) |-> i],
                       LAMBDA i : \A j \in 1..(i - 1) : d[j][1] # d[i][1]))

\* sorted(items, key=lambda kv: len(kv[0]), reverse=True): a stable sort,
\* longest key first
SortByKeyLenDesc(items) ==
    LET sorted(len) ==
            LET before(i, j) == len[i] > len[j] \/ (len[i] = len[j] /\ i < j)
                place(rank) ==
                    SubSeq([r \in 1..Len(items) |->
                              items[CHOOSE i \in 1..Len(items) :
                                       rank[i] = r - 1]],
                           1, Len(items))
            IN place(SubSeq([i \in 1..Len(items) |->
                               Cardinality({j \in 1..Len(items) :
                                              before(j, i)})],
                            1, Len(items)))
    IN sorted(SubSeq([i \in 1..Len(items) |-> KeyLen(items[i][1])],
                     1, Len(items)))

unit_lookup_items == SortByKeyLenDesc(DictItems(unit_lookup))

\* outcomes: canonicalize_unit, with its looser substring match
canonicalize_unit_out(u0) ==
    LET first(hits, u) == IF hits # <<>> THEN hits[1][2] ELSE u
        loose(u, k) ==
            IF InLookup(unit_lookup, k) THEN LookupGet(unit_lookup, k)
            ELSE first(SelectSeq(unit_lookup_items,
                                 LAMBDA e : Contains(k, e[1])), u)
        canon(u) == loose(u, unit_key(u))
    IN canon(normalize_unit_out(u0))

-----------------------------------------------------------------------------
(* Page text.  The text of a page is the sequence of its lines            *)
(* (text.splitlines()), each line a string.                               *)

\* the lines of the page with the white space around them kept
LinesNotStripped(text) == SelectSeq(text, LAMBDA ln : Strip(ln) # <<>>)

\* [ln.strip() for ln in text.splitlines() if ln.strip()]
NonEmptyLines(text) ==
    SelectSeq(SubSeq([i \in 1..Len(text) |-> Strip(text[i])], 1, Len(text)),
              LAMBDA ln : ln # <<>>)

\* min(a, b)
Min(a, b) == IF a <= b THEN a ELSE b
Max(a, b) == IF a >= b THEN a ELSE b

\* s.replace(" ,", ",")
ReplaceSpaceComma(s) ==
    Flat([i \in 1..Len(s) |->
            IF s[i] = " " /\ i < Len(s) /\ s[i + 1] = ","
            THEN <<>> ELSE <<s[i]>>])

\* s.rstrip(",")
RECURSIVE RStripComma(_)
RStripComma(s) ==
    IF s # <<>> /\ s[Len(s)] = ","
    THEN RStripComma(SubSeq(s, 1, Len(s) - 1))
    ELSE s

\* the number of leading lines extract_unit_candidate scans
MAX_SCAN == 60

\* the candidate strings extract_unit_candidate tests, in the order it tests
\* them: for each line i the line, the line joined with its successor, and
\* the line joined with its two successors
RECURSIVE UnitCandidates(_, _, _)
UnitCandidates(lines, i, max_scan) ==
    IF i > max_scan THEN <<>>
    ELSE <<lines[i]>>
         \o (IF i + 1 <= max_scan
             THEN <<Strip(RStripComma(lines[i]) \o <<" ">> \o lines[i + 1])>>
             ELSE <<>>)
         \o (IF i + 2 <= max_scan
             THEN <<Strip(RStripComma(lines[i]) \o <<" ">> \o lines[i + 1]
                          \o <<" ">> \o lines[i + 2])>>
             ELSE <<>>)
         \o UnitCandidates(lines, i + 1, max_scan)

\* internship wage: extract_unit_candidate
extract_unit_candidate_wage(text) ==
    LET first(hits) == IF hits = <<>> THEN None ELSE hits[1]
        test(cands) ==
            first(SelectSeq(
                SubSeq([c \in 1..Len(cands) |->
                          canonicalize_unit_wage(ReplaceSpaceComma(cands[c]))],
                       1, Len(cands)),
                LAMBDA u : u \in UnitSet))
        scan(lines) == test(UnitCandidates(lines, 1, Min(MAX_SCAN, Len(lines))))
    IN scan(NonEmptyLines(text))

\* employment search: extract_unit_candidate
extract_unit_candidate_emp(text) ==
    LET first(hits) == IF hits = <<>> THEN None ELSE hits[1]
        test(cands) ==
            first(SelectSeq(
                SubSeq([c \in 1..Len(cands) |->
                          canonicalize_unit_emp(ReplaceSpaceComma(cands[c]))],
                       1, Len(cands)),
                LAMBDA u : u \in UnitSet))
        scan(lines) == test(UnitCandidates(lines, 1, Min(MAX_SCAN, Len(lines))))
    IN scan(NonEmptyLines(text))

\* the footer codes of the internship-wage reports
ABBR_TO_UNIT(code) ==
    CASE code = "AGNR" -> U_AGNR [] code = "ARHU" -> U_ARHU
      [] code = "BSOS" -> U_BSOS [] code = "CMNS" -> U_CMNS
      [] code = "EDUC" -> U_EDUC [] code = "INFO" -> U_INFO
      [] code = "ENGR" -> U_ENGR [] code = "JOUR" -> U_JOUR
      [] code = "ARCH" -> U_ARCH [] code = "SPHL" -> U_SPHL
      [] code = "PLCY" -> U_PLCY [] code = "PPOL" -> U_PLCY
      [] code = "BMGT" -> U_BMGT [] code = "LTSC" -> U_LTSC
      [] code = "LESC" -> U_LTSC [] code = "HNRS" -> U_HNRS
      [] code = "CPS" -> U_CPS [] code = "UGST" -> U_UGST
      [] code = "UGS" -> U_UGST [] code = "OVERALL" -> U_UW
      [] OTHER -> None

\* \d{1,3} matching a whole digit run
IsShortNum(t) == IsDigitTok(t) /\ TokLen(t) <= 3

\* the words of the vocabulary that are three to eight capital letters:
\* what \b([A-Z]{3,8}) followed by white space can match
UpperCodes ==
    {"AGNR", "ARHU", "BSOS", "CMNS", "EDUC", "INFO", "ENGR", "JOUR", "ARCH",
     "SPHL", "PLCY", "PPOL", "BMGT", "LTSC", "LESC", "HNRS", "CPS", "UGST",
     "UGS", "OVERALL", "TOTAL", "TOP", "PAGE"}

\* the index of the last token of ln before its trailing "\s+\d{1,3}", or 0
\* when ln does not end in white space and a number of one to three digits
TrailNumCut(ln) ==
    IF Len(ln) >= 3 /\ IsShortNum(ln[Len(ln)]) /\ IsSpaceTok(ln[Len(ln) - 1])
    THEN Len(RStrip(SubSeq(ln, 1, Len(ln) - 1)))
    ELSE 0

\* the code FOOTER_ABBR_RE captures in ln, or None
FooterAbbr(ln) ==
    LET code(c) ==
            IF c >= 1 /\ ln[c] \in UpperCodes
               /\ (c = 1 \/ ~(IsWordTok(ln[c - 1]) \/ IsDigitTok(ln[c - 1])
                              \/ ln[c - 1] = "_"))
            THEN ln[c]
            ELSE "<no-code>"
    IN code(TrailNumCut(ln))

\* re.search(r"\boverall\b", ln, flags=re.I)
HasOverallWord(ln) ==
    \E i \in 1..Len(ln) :
        /\ Lower(ln[i]) = "overall"
        /\ (i = 1 \/ ~(IsDigitTok(ln[i - 1]) \/ ln[i - 1] = "_"))
        /\ (i = Len(ln) \/ ~(IsDigitTok(ln[i + 1]) \/ ln[i + 1] = "_"))

\* what one footer line resolves to, or None
FooterLineUnit(ln) ==
    LET named(c, cand) ==
            IF c >= 1 /\ cand \in UnitSet THEN cand
            ELSE IF HasOverallWord(ln) THEN U_UW
            ELSE None
        cut(code, c) ==
            IF ABBR_TO_UNIT(code) # None THEN ABBR_TO_UNIT(code)
            ELSE named(c, canonicalize_unit_wage(SubSeq(ln, 1, c)))
    IN cut(FooterAbbr(ln), TrailNumCut(ln))

\* how many trailing lines extract_unit_from_footer inspects
FOOTER_LINES == 12

\* internship wage: extract_unit_from_footer
extract_unit_from_footer(text) ==
    LET last(hits) == IF hits = <<>> THEN None ELSE hits[Len(hits)]
        tail(lines) ==
            last(SelectSeq(
                SubSeq([i \in 1..Len(lines) |-> FooterLineUnit(lines[i])],
                       1, Len(lines)),
                LAMBDA u : u # None))
        scan(lines) ==
            tail(SubSeq(lines, Max(1, Len(lines) - FOOTER_LINES + 1),
                        Len(lines)))
    IN scan(NonEmptyLines(text))

\* len(u) of a unit name
RECURSIVE NameLen(_)
NameLen(u) == IF u = <<>> THEN 0 ELSE TokLen(Head(u)) + NameLen(Tail(u))

\* internship wage: extract_unit_anywhere
extract_unit_anywhere(text) ==
    LET longest(hits) ==
            IF hits = <<>> THEN None
            ELSE hits[CHOOSE i \in 1..Len(hits) :
                   /\ \A j \in 1..Len(hits) :
                         NameLen(hits[j]) <= NameLen(hits[i])
                   /\ \A j \in 1..(i - 1) :
                         NameLen(hits[j]) < NameLen(hits[i])]
        search(low) ==
            longest(SelectSeq(unit_order,
                     LAMBDA u : \E i \in 1..Len(low) :
                                   Contains(low[i], LowerStr(u))))
    IN search(SubSeq([i \in 1..Len(text) |-> LowerStr(text[i])],
                     1, Len(text)))

\* internship wage: page_starts_with_unit
page_starts_with_unit(text) ==
    LET first(hits) == IF hits = <<>> THEN None ELSE hits[1]
        spans(lines) ==
            first(SelectSeq(
                SubSeq([sp \in 1..Min(3, Len(lines)) |->
                          canonicalize_unit_wage(JoinWs(SubSeq(lines, 1, sp)))],
                       1, Min(3, Len(lines))),
                LAMBDA u : u \in UnitSet))
    IN spans(NonEmptyLines(text))

-----------------------------------------------------------------------------
(* Numbers in text *)

\* 10 ** k
Pow10(k) == IF k = 1 THEN 10 ELSE IF k = 2 THEN 100 ELSE IF k = 3 THEN 1000 ELSE 10000

\* the value, in hundredths, of the digits after a decimal point (two
\* digits at most in the vocabulary)
Frac100(t) == IF TokLen(t) = 1 THEN IntOf(t) * 10 ELSE IntOf(t)

\* Python's None where a number is expected
NoNumber == -1

\* the length in tokens of the number \d+(?:\.\d+)? at position i of s,
\* 0 when s[i] is not a digit run
NumLenAt(s, i) ==
    IF i > Len(s) \/ ~IsDigitTok(s[i]) THEN 0
    ELSE IF i + 2 <= Len(s) /\ s[i + 1] = "." /\ IsDigitTok(s[i + 2]) THEN 3
    ELSE 1

\* float() of the number at position i of s, in hundredths
NumValAt(s, i) ==
    IF NumLenAt(s, i) = 3 THEN IntOf(s[i]) * 100 + Frac100(s[i + 2])
    ELSE IntOf(s[i]) * 100

\* the first position at or after i that holds no white space
RECURSIVE SkipWs(_, _)
SkipWs(s, i) == IF i <= Len(s) /\ IsSpaceTok(s[i]) THEN SkipWs(s, i + 1) ELSE i

\* the end (exclusive) of the run [\d,]+ that starts at position i
RECURSIVE DigitRunEnd(_, _)
DigitRunEnd(s, i) ==
    IF i <= Len(s) /\ (IsDigitTok(s[i]) \/ s[i] = ",")
    THEN DigitRunEnd(s, i + 1)
    ELSE i

\* to_int: int() of a run of digits and commas with the commas removed,
\* NoNumber when no digit is left
RECURSIVE DigitsValue(_, _)
DigitsValue(run, acc) ==
    IF run = <<>> THEN acc
    ELSE IF Head(run) = "," THEN DigitsValue(Tail(run), acc)
    ELSE DigitsValue(Tail(run),
                     acc * Pow10(TokLen(Head(run))) + IntOf(Head(run)))

to_int(run) ==
    IF \A i \in 1..Len(run) : run[i] = "," THEN NoNumber
    ELSE IF \E i \in 1..Len(run) : ~(IsDigitTok(run[i]) \/ run[i] = ",")
    THEN NoNumber
    ELSE DigitsValue(run, 0)

-----------------------------------------------------------------------------
(* internship wage: strip_chart_artifacts and parse_metrics *)

\* the whole text of a page with its white space normalized: the lines
\* joined by the line breaks, which normalize_whitespace turns into spaces
PageLine(text) == normalize_whitespace(JoinWs(text))

\* internships?\s*-\s*compensation
CompensationLen(s, i) ==
    LET a == SkipWs(s, i + 1)
        b == SkipWs(s, a + 1)
    IN IF /\ Lower(s[i]) \in {"internship", "internships"}
          /\ a <= Len(s) /\ s[a] = "-"
          /\ b <= Len(s) /\ Lower(s[b]) = "compensation"
       THEN b - i + 1
       ELSE 0

\* \b(?:yes|no|other|paid|unpaid)\b\s*\d+(?:\.\d+)?\s*%?
LegendValueLen(s, i) ==
    LET a == SkipWs(s, i + 1)
        b == SkipWs(s, a + NumLenAt(s, a))
    IN IF /\ Lower(s[i]) \in {"yes", "no", "other", "paid", "unpaid"}
          /\ NumLenAt(s, a) > 0
       THEN (IF b <= Len(s) /\ s[b] = "%" THEN b + 1 ELSE a + NumLenAt(s, a)) - i
       ELSE 0

\* \d+(?:\.\d+)?\s*%
PercentLen(s, i) ==
    LET b == SkipWs(s, i + NumLenAt(s, i))
    IN IF NumLenAt(s, i) > 0 /\ b <= Len(s) /\ s[b] = "%"
       THEN b + 1 - i
       ELSE 0

\* \b(?:yes|no|other)\b
LegendWordLen(s, i) == IF Lower(s[i]) \in {"yes", "no", "other"} THEN 1 ELSE 0

\* the length of the match of the step-th pattern of strip_chart_artifacts
\* at position i (0: no match there)
ArtifactLen(step, s, i) ==
    CASE step = 1 -> CompensationLen(s, i)
      [] step = 2 -> LegendValueLen(s, i)
      [] step = 3 -> PercentLen(s, i)
      [] OTHER -> LegendWordLen(s, i)

\* whether the left-to-right scan of re.sub finds a match starting at
\* position i, lens[j] being the length of the pattern's match at j: the
\* pattern matches there and no match found earlier extends over i
RECURSIVE MatchStart(_, _)
MatchStart(lens, i) ==
    /\ lens[i] > 0
    /\ \A j \in 1..(i - 1) : j + lens[j] > i => ~MatchStart(lens, j)

\* re.sub(pattern, " ", s) for the step-th pattern
SubBlank(step, s) ==
    LET blank(lens) ==
            Flat([i \in 1..Len(s) |->
                    IF MatchStart(lens, i) THEN <<" ">>
                    ELSE IF \E j \in 1..(i - 1) :
                              j + lens[j] > i /\ MatchStart(lens, j)
                    THEN <<>>
                    ELSE <<s[i]>>])
    IN blank(SubSeq([i \in 1..Len(s) |-> ArtifactLen(step, s, i)], 1, Len(s)))

strip_chart_artifacts(text) ==
    normalize_whitespace(
        SubBlank(4, SubBlank(3, SubBlank(2, SubBlank(1, PageLine(text))))))

\* the characters SENT_GAP does not cross, and the most characters it spans
Terminators == {".", "?", "!"}
SENT_GAP_MAX == 260

\* len() of the tokens p..q-1 of s
RECURSIVE SpanLen(_, _, _)
SpanLen(s, p, q) ==
    IF p >= q THEN 0
    ELSE IF p + 1 = q
    THEN TokLen(s[p])
    ELSE SpanLen(s, p, (p + q) \div 2) + SpanLen(s, (p + q) \div 2, q)

\* the least member of a non-empty set of positions
MinOf(S) == CHOOSE x \in S : \A y \in S : x <= y

\* the last position at which the anchor after a SENT_GAP that starts at p
\* may begin: the gap crosses no terminator and spans SENT_GAP_MAX
\* characters at most. The lazy quantifier tries p, p + 1, ... up to it
GapEnd(L, p) ==
    LET within(t) ==
            IF SpanLen(L, p, t) <= SENT_GAP_MAX THEN t
            ELSE CHOOSE q \in p..t :
                    /\ SpanLen(L, p, q) <= SENT_GAP_MAX
                    /\ SpanLen(L, p, q + 1) > SENT_GAP_MAX
    IN IF p > Len(L) THEN Len(L)
       ELSE within(MinOf({i \in p..Len(L) : L[i] \in Terminators}
                         \cup {Len(L)}))

\* a number at position r that (?!\s*%) lets stand
NumberNoPercent(L, r) ==
    /\ NumLenAt(L, r) > 0
    /\ ~(/\ SkipWs(L, r + NumLenAt(L, r)) <= Len(L)
         /\ L[SkipWs(L, r + NumLenAt(L, r))] = "%")

NoMatch == <<>>

\* what a backtracking search returns that tries the positions lo..hi in
\* order and continues the match at each with F: the result of the first
\* position where the rest matches, or NoMatch
FirstHit(lo, hi, F(_)) ==
    LET pick(res) ==
            IF \A i \in 1..Len(res) : res[i] = NoMatch THEN NoMatch
            ELSE res[CHOOSE i \in 1..Len(res) :
                       /\ res[i] # NoMatch
                       /\ \A j \in 1..(i - 1) : res[j] = NoMatch]
    IN IF hi < lo THEN NoMatch
       ELSE pick(SubSeq([i \in 1..(hi - lo + 1) |-> F(lo + i - 1)],
                        1, hi - lo + 1))

\* the tail of a wage pattern from the position p after its "wage|rate":
\* SENT_GAP first-word .*? number SENT_GAP second-word .*? number.
\* <<first number, second number>> in hundredths, or NoMatch
WageTail(L, p, firstWords, secondWords) ==
    LET pair(v, t) == IF t = NoMatch THEN NoMatch ELSE <<v, t[1]>>
        secondNumber(m) ==
            FirstHit(m, Len(L),
                     LAMBDA r : IF NumberNoPercent(L, r)
                                THEN <<NumValAt(L, r)>> ELSE NoMatch)
        second(q) ==
            FirstHit(q, GapEnd(L, q),
                     LAMBDA m : IF L[m] \in secondWords
                                THEN secondNumber(m + 1) ELSE NoMatch)
        firstNumber(a) ==
            FirstHit(a, Len(L),
                     LAMBDA r : IF NumberNoPercent(L, r)
                                THEN pair(NumValAt(L, r),
                                          second(r + NumLenAt(L, r)))
                                ELSE NoMatch)
    IN FirstHit(p, GapEnd(L, p),
                LAMBDA a : IF L[a] \in firstWords
                           THEN firstNumber(a + 1) ELSE NoMatch)

\* "(that\s+)?(paid|include(d)?|with)\b" at position q: the position after
\* it, or 0
PaidWords == {"paid", "include", "included", "with"}
PaidAnchorEnd(L, q) ==
    IF q + 2 <= Len(L) /\ L[q] = "that" /\ IsSpaceTok(L[q + 1])
       /\ L[SkipWs(L, q + 1)] \in PaidWords
    THEN SkipWs(L, q + 1) + 1
    ELSE IF L[q] \in PaidWords THEN q + 1
    ELSE 0

\* from the position p after "experiences": SENT_GAP paid SENT_GAP hourly
\* SENT_GAP wage|rate, then the tail
WageBody(L, p, firstWords, secondWords) ==
    LET afterHourly(h) ==
            FirstHit(h, GapEnd(L, h),
                     LAMBDA w : IF L[w] \in {"wage", "rate"}
                                THEN WageTail(L, w + 1, firstWords, secondWords)
                                ELSE NoMatch)
        afterPaid(a) ==
            FirstHit(a, GapEnd(L, a),
                     LAMBDA h : IF L[h] = "hourly"
                                THEN afterHourly(h + 1) ELSE NoMatch)
    IN FirstHit(p, GapEnd(L, p),
                LAMBDA q : IF PaidAnchorEnd(L, q) # 0
                           THEN afterPaid(PaidAnchorEnd(L, q)) ELSE NoMatch)

\* "\b(of|for)\s+(the\s+)?([\d,]+)\s+(internship\s+)?experiences\b" at
\* position s: <<position of the count, position after "experiences">>, or
\* NoMatch
ExperiencesHead(L, s) ==
    LET a == SkipWs(L, s + 1)
        b == IF a <= Len(L) /\ L[a] = "the" /\ SkipWs(L, a + 1) > a + 1
             THEN SkipWs(L, a + 1) ELSE a
        c == DigitRunEnd(L, b)
        d == SkipWs(L, c)
        e == IF d <= Len(L) /\ L[d] = "internship" /\ SkipWs(L, d + 1) > d + 1
             THEN SkipWs(L, d + 1) ELSE d
    IN IF /\ L[s] \in {"of", "for"}
          /\ a > s + 1
          /\ c > b
          /\ d > c
          /\ e <= Len(L) /\ L[e] = "experiences"
       THEN <<b, e + 1>>
       ELSE NoMatch

\* pat.search(cleaned) of one wage pattern: [n, first, second] of the
\* leftmost match, or NoMatch
WageSearch(L, firstWords, secondWords) ==
    LET triple(h, t) ==
            IF t = NoMatch THEN NoMatch
            ELSE <<to_int(SubSeq(L, h[1], DigitRunEnd(L, h[1]) - 1)),
                   t[1], t[2]>>
        head(h) ==
            IF h = NoMatch THEN NoMatch
            ELSE triple(h, WageBody(L, h[2], firstWords, secondWords))
    IN FirstHit(1, Len(L), LAMBDA s : head(ExperiencesHead(L, s)))

AverageWords == {"average", "mean"}
MedianWords == {"median"}

\* the plausible hourly wage, in hundredths: 0 < w < 100
WAGE_MAX == 100

\* a range check that lets the bounds themselves pass
PlausibleWageClosed(v) == 0 <= v /\ v <= WAGE_MAX * 100

PlausibleWage(v) == 0 < v /\ v < WAGE_MAX * 100

\* ONE_WAGE_RE.search(cleaned): the wage in hundredths, or NoNumber
OneWageSearch(L) ==
    LET n == Len(L)
        perHour(p) == \E i \in p..n :
            /\ L[i] = "per" /\ i + 2 <= n /\ IsSpaceTok(L[i + 1])
            /\ SkipWs(L, i + 1) <= n /\ L[SkipWs(L, i + 1)] = "hour"
        starts == {i \in 1..n :
            /\ L[i] \in {"one", "1"} /\ i + 2 <= n /\ IsSpaceTok(L[i + 1])
            /\ SkipWs(L, i + 1) <= n /\ L[SkipWs(L, i + 1)] = "experience"}
        first(chain) ==
            IF chain = {} THEN NoNumber ELSE NumValAt(L, MinOf(chain))
    IN first({r \in 1..n :
            /\ NumLenAt(L, r) > 0
            /\ perHour(r + NumLenAt(L, r))
            /\ \E i \in starts : \E a \in (i + 1)..n : \E h \in (a + 1)..n :
                 \E w \in (h + 1)..n :
                    /\ L[a] = "paid" /\ L[h] = "hourly"
                    /\ L[w] \in {"wage", "rate"} /\ w < r})

\* TOTAL_EXPERIENCES_RE.search(cleaned): the count, NoNumber when the
\* pattern does not match or the count has no digit
TotalSearch(L) ==
    LET n == Len(L)
        tail(i) == \* i: the position of "total"
            LET a == SkipWs(L, i + 1)       \* of
                b == SkipWs(L, a + 1)       \* the count
                c == DigitRunEnd(L, b)
                d == SkipWs(L, c)           \* internship
                e == SkipWs(L, d + 1)       \* experience(s)
                f == SkipWs(L, e + 1)       \* were | was
                g == SkipWs(L, f + 1)       \* reported
            IN /\ L[i] = "total"
               /\ g <= n
               /\ a > i + 1 /\ L[a] = "of"
               /\ b > a + 1 /\ c > b
               /\ d > c /\ L[d] = "internship"
               /\ e > d + 1 /\ L[e] \in {"experience", "experiences"}
               /\ f > e + 1 /\ L[f] \in {"were", "was"}
               /\ g > f + 1 /\ L[g] = "reported"
        count(b) == to_int(SubSeq(L, b, DigitRunEnd(L, b) - 1))
        first(is) ==
            IF is = {} THEN NoNumber
            ELSE count(SkipWs(L, SkipWs(L, MinOf(is) + 1) + 1))
    IN first({i \in 1..n : tail(i)})

\* the quality tags of parse_metrics
PRIORITY_WAGE == 2
PRIORITY_TOTAL == 1

\* parse_metrics returning None
NoMetrics == [n |-> NoNumber, avg |-> NoNumber, med |-> NoNumber, priority |-> 0]

\* the first wage pattern alone, the one with the average first
AverageFirstOnly(L) ==
    LET ok(m) == m # NoMatch /\ m[1] # NoNumber
                   /\ PlausibleWage(m[2]) /\ PlausibleWage(m[3])
        first(m1) == IF ok(m1) THEN <<m1[1], m1[2], m1[3]>> ELSE NoMatch
    IN first(WageSearch(L, AverageWords, MedianWords))

\* the first of the two wage patterns whose match passes the checks, as
\* [n, avg, med], or NoMatch
WagePatternResult(L) ==
    LET ok(m) == m # NoMatch /\ m[1] # NoNumber
                   /\ PlausibleWage(m[2]) /\ PlausibleWage(m[3])
        second(m2) == IF ok(m2) THEN <<m2[1], m2[3], m2[2]>> ELSE NoMatch
        first(m1) == IF ok(m1) THEN <<m1[1], m1[2], m1[3]>>
                     ELSE second(WageSearch(L, MedianWords, AverageWords))
    IN first(WageSearch(L, AverageWords, MedianWords))

parse_metrics(text) ==
    LET parse(low) ==
            LET wageGate ==
                    /\ Contains(low, <<"hourly">>)
                    /\ (Contains(low, <<"wage">>) \/ Contains(low, <<"rate">>))
                    /\ Contains(low, <<"median">>)
                    /\ (Contains(low, <<"average">>) \/ Contains(low, <<"mean">>))
                totalGate ==
                    /\ Contains(low, <<"internship">>) /\ Contains(low, <<"total">>)
                    /\ Contains(low, <<"reported">>)
                total(t) ==
                    IF totalGate /\ t # NoNumber /\ t > 0
                    THEN [n |-> t, avg |-> NoNumber, med |-> NoNumber,
                          priority |-> PRIORITY_TOTAL]
                    ELSE NoMetrics
                single(one) ==
                    IF wageGate /\ one # NoNumber /\ PlausibleWage(one)
                    THEN [n |-> 1, avg |-> one, med |-> one,
                          priority |-> PRIORITY_WAGE]
                    ELSE total(TotalSearch(low))
                wage(w) ==
                    IF wageGate /\ w # NoMatch
                    THEN [n |-> w[1], avg |-> w[2], med |-> w[3],
                          priority |-> PRIORITY_WAGE]
                    ELSE single(OneWageSearch(low))
            IN wage(WagePatternResult(low))
    IN parse(LowerStr(strip_chart_artifacts(text)))

-----------------------------------------------------------------------------
(* employment search: percents, labels, method_key *)

\* the first position at or after i of s that holds no digit run
RECURSIVE DigitsEnd(_, _)
DigitsEnd(s, i) ==
    IF i <= Len(s) /\ IsDigitTok(s[i]) THEN DigitsEnd(s, i + 1) ELSE i

\* the position after the match of \d+(?:\.\d+)? at position i of s, 0 when
\* no digit stands there
NumberEnd(s, i) ==
    LET frac(e) ==
            IF e + 1 <= Len(s) /\ s[e] = "." /\ IsDigitTok(s[e + 1])
            THEN DigitsEnd(s, e + 1) ELSE e
    IN IF i > Len(s) \/ ~IsDigitTok(s[i]) THEN 0 ELSE frac(DigitsEnd(s, i))

\* percent_re.match(s): ^<?\d+(?:\.\d+)?%$
PercentMatch(s) ==
    /\ Len(s) >= 2
    /\ NumberEnd(s, IF s[1] = "<" THEN 2 ELSE 1) = Len(s)
    /\ s[Len(s)] = "%"

\* s.replace(" ", "")
NoSpaces(s) == SelectSeq(s, LAMBDA t : t # " ")

\* is_percent (the same function in the outcomes script)
is_percent(x) == PercentMatch(NoSpaces(Strip(x)))

\* float(s) in hundredths, for the spellings with an optional sign, digits
\* and an optional point and fraction of at most two digits; bad where
\* float() raises ValueError
FloatOr(s0, bad) ==
    LET num(s, sign) ==
            IF Len(s) = 1 /\ IsDigitTok(s[1]) THEN sign * IntOf(s[1]) * 100
            ELSE IF Len(s) = 2 /\ IsDigitTok(s[1]) /\ s[2] = "."
            THEN sign * IntOf(s[1]) * 100
            ELSE IF Len(s) = 2 /\ s[1] = "." /\ IsDigitTok(s[2])
            THEN sign * Frac100(s[2])
            ELSE IF Len(s) = 3 /\ IsDigitTok(s[1]) /\ s[2] = "."
                    /\ IsDigitTok(s[3])
            THEN sign * (IntOf(s[1]) * 100 + Frac100(s[3]))
            ELSE bad
        signed(s) ==
            IF s # <<>> /\ s[1] = "-" THEN num(Tail(s), -1)
            ELSE IF s # <<>> /\ s[1] = "+" THEN num(Tail(s), 1)
            ELSE num(s, 1)
    IN signed(Strip(s0))

\* pct.rstrip("%")
RECURSIVE RStripPercent(_)
RStripPercent(s) ==
    IF s # <<>> /\ s[Len(s)] = "%"
    THEN RStripPercent(SubSeq(s, 1, Len(s) - 1))
    ELSE s

\* pct_to_num, in hundredths: -1.0 is -100 and 0.5 is 50
pct_to_num(pct) ==
    LET num(p) ==
            IF p = <<>> THEN -100
            ELSE IF p[1] = "<" /\ p[Len(p)] = "%" THEN 50
            ELSE FloatOr(RStripPercent(p), -100)
    IN num(Strip(IF pct = None THEN <<>> ELSE pct))

HEADER_WORDS == {"method", "methods", "used", "find", "employment", "search"}

\* employment search: is_label
is_label_emp(s0) ==
    LET isdigit(d) == d # <<>> /\ \A i \in 1..Len(d) : IsDigitTok(d[i])
        label(s) ==
            /\ s # <<>>
            /\ ~is_percent(s)
            /\ ~isdigit(SelectSeq(s, LAMBDA t : t # ","))
            /\ \E i \in 1..Len(s) : IsWordTok(s[i])
            /\ ~(\A i \in 1..Len(s) :
                    IsWordTok(s[i]) => Lower(s[i]) \in HEADER_WORDS)
    IN label(Strip(s0))

\* the values of the Method column, in the order of method_columns
M_INTERVIEWS == "On-campus Interviews %"
M_INTERNSHIP == "Previous Internship/Co-op %"
M_FAIRS_ON == "Career Fairs On Campus %"
M_FAIRS_OFF == "Career Fairs Off Campus %"
M_UMD_SITE == "UMD Online Job Site %"
M_NON_UMD_SITE == "Non-UMD Online Job Site %"
M_FACULTY == "Contacts Faculty %"
M_FAMILY == "Contacts Family/Friends %"
M_EMPLOYED == "Currently Employed with Org %"
M_NEWSPAPER == "Newspaper %"
M_OTHER == "Other %"
method_columns ==
    <<M_INTERVIEWS, M_INTERNSHIP, M_FAIRS_ON, M_FAIRS_OFF, M_UMD_SITE,
      M_NON_UMD_SITE, M_FACULTY, M_FAMILY, M_EMPLOYED, M_NEWSPAPER, M_OTHER>>

\* method_key returning None
NoMethod == "<None>"

\* "non-umd" in s or "non umd" in s
NonUmd(s) ==
    Contains(s, <<"non", "-", "umd">>) \/ Contains(s, <<"non", " ", "umd">>)

\* method_key, the career fair rule: off campus with a marker of it, on
\* campus otherwise (with or without "umd")
FairKey(s) ==
    IF NonUmd(s) \/ Contains(s, <<"off", " ", "campus">>)
       \/ Contains(s, <<"off", "-", "campus">>)
    THEN M_FAIRS_OFF ELSE M_FAIRS_ON

\* method_key, the rules after the career fair rule
LaterRules(s) ==
    LET in(p) == Contains(s, p)
    IN IF NonUmd(s)
          /\ (\/ in(<<"online">>) \/ in(<<"job", " ", "site">>)
              \/ in(<<"jobsite">>)
              \/ in(<<"company", " ", "website">>)
              \/ in(<<"company", " ", "site">>)
              \/ in(<<"social", " ", "media">>))
       THEN M_NON_UMD_SITE
       ELSE IF (\/ in(<<"umd", " ", "online", " ", "job", " ", "site">>)
                \/ in(<<"handshake">>) \/ in(<<"hiresmith">>)
                \/ in(<<"careers", "4", "terps">>))
               /\ ~NonUmd(s)
       THEN M_UMD_SITE
       ELSE IF in(<<"interview">>)
               /\ (\/ in(<<"on", " ", "campus">>)
                   \/ in(<<"on", "-", "campus">>)
                   \/ in(<<"campus", "/", "virtual">>)
                   \/ in(<<"virtual">>))
       THEN M_INTERVIEWS
       ELSE IF (in(<<"family">>) \/ in(<<"friends">>))
               /\ in(<<"contact">>)
       THEN M_FAMILY
       ELSE IF (in(<<"faculty">>) \/ in(<<"staff">>))
               /\ in(<<"contact">>)
       THEN M_FACULTY
       ELSE IF in(<<"currently", " ", "employed">>) THEN M_EMPLOYED
       ELSE IF in(<<"newspaper">>) THEN M_NEWSPAPER
       ELSE IF s = <<"other">> THEN M_OTHER
       ELSE NoMethod

\* the rules in another order: the career fair rule before the
\* internship rule
FairsFirst(s) ==
    IF Contains(s, <<"career", " ", "fair">>) THEN FairKey(s)
    ELSE IF \/ Contains(s, <<"intern">>) \/ Contains(s, <<"co", "-", "op">>)
            \/ Contains(s, <<"coop">>)
    THEN M_INTERNSHIP
    ELSE LaterRules(s)

\* method_key, the rules in their order on the lowered label
MethodRules(s) ==
    IF \/ Contains(s, <<"intern">>) \/ Contains(s, <<"co", "-", "op">>)
       \/ Contains(s, <<"coop">>)
    THEN M_INTERNSHIP
    ELSE IF Contains(s, <<"career", " ", "fair">>) THEN FairKey(s)
    ELSE LaterRules(s)

\* method_key
method_key(label) ==
    MethodRules(
        Strip(CollapseWs(LowerStr(IF label = None THEN <<>> ELSE label))))

\* page_has_employment_search: the three phrases with \s+ between the
\* words, searched in the whole text of the page
SECTION_PHRASES ==
    << <<"employment", " ", "search">>,
       <<"method", " ", "used", " ", "to", " ", "find", " ", "employment">>,
       <<"methods", " ", "of", " ", "employment">> >>

\* any(p in s for p in pats)
ContainsAny(s, pats) == \E k \in 1..Len(pats) : Contains(s, pats[k])

page_has_employment_search(text) ==
    ContainsAny(LowerStr(CollapseWs(JoinWs(text))), SECTION_PHRASES)
-----------------------------------------------------------------------------
(* employment search: parse_ep_from_text *)

STOP_MARKERS ==
    << <<"reported", " ", "outcomes">>, <<"graduate", " ", "outcomes">>,
       <<"placement", " ", "rate">>, <<"employed", " ", "ft">>,
       <<"employed", " ", "pt">>, <<"continuing", " ", "education">>,
       <<"volunteering">>, <<"service", " ", "program">>,
       <<"serving", " ", "in", " ", "the", " ", "military">>,
       <<"starting", " ", "a", " ", "business">>, <<"unplaced">>,
       <<"unresolved">>, <<"salary">> >>

\* page_low.find(pat): <<line, token>> of the first occurrence of pat in the
\* lines low of the page, <<0, 0>> for -1
FindInPage(low, pat) ==
    LET inLine(l) == {i \in 1..Len(low[l]) : OccursAt(low[l], pat, i)}
        first(ls) ==
            IF ls = {} THEN <<0, 0>>
            ELSE <<MinOf(ls), MinOf(inLine(MinOf(ls)))>>
    IN first({l \in 1..Len(low) : inLine(l) # {}})

\* s.strip(" -:\t")
RECURSIVE StripSeparators(_)
StripSeparators(s) ==
    IF s # <<>> /\ s[1] \in {" ", "-", ":"} THEN StripSeparators(Tail(s))
    ELSE IF s # <<>> /\ s[Len(s)] \in {" ", "-", ":"}
    THEN StripSeparators(SubSeq(s, 1, Len(s) - 1))
    ELSE s

\* the match of pct_anywhere, (<?\d+(?:\.\d+)?)\s*%, that starts at position
\* j of ln: <<j, end of group 1, end of the match>>, or NoMatch
PctMatchAt(ln, j) ==
    LET pct(e) ==
            IF e # 0 /\ SkipWs(ln, e) <= Len(ln) /\ ln[SkipWs(ln, e)] = "%"
            THEN <<j, e, SkipWs(ln, e) + 1>>
            ELSE NoMatch
    IN pct(NumberEnd(ln, IF ln[j] = "<" THEN j + 1 ELSE j))

\* list(pct_anywhere.finditer(ln)), from position i on
RECURSIVE PctMatches(_, _)
PctMatches(ln, i) ==
    LET more(m) == <<m>> \o PctMatches(ln, m[3])
        next(hits) ==
            IF hits = {} THEN <<>> ELSE more(PctMatchAt(ln, MinOf(hits)))
    IN next({j \in i..Len(ln) : PctMatchAt(ln, j) # NoMatch})

\* what the branch "if matches:" appends to out for the line ln
InlinePairs(ln, pending_label) ==
    LET pairs(ms) ==
            LET label(k) ==
                    StripSeparators(
                        SubSeq(ln, IF k = 1 THEN 1 ELSE ms[k - 1][3],
                               ms[k][1] - 1))
                used(lab) ==
                    IF lab = <<>> /\ Truthy(pending_label)
                    THEN pending_label ELSE lab
                one(k, lab) ==
                    IF lab # <<>> /\ is_label_emp(lab)
                    THEN << <<lab, SubSeq(ln, ms[k][1], ms[k][2] - 1)
                                   \o <<"%">> >> >>
                    ELSE <<>>
            IN Flat([k \in 1..Len(ms) |-> one(k, used(label(k)))])
    IN pairs(PctMatches(ln, 1))

\* the loop "for ln in lines[start + 1:]" from line i on, with the values
\* of out, pending_label and pending_pct at that point
RECURSIVE ParseLines(_, _, _, _, _)
ParseLines(lines, i, out_, pending_label, pending_pct) ==
    IF i > Len(lines) THEN out_
    ELSE
    LET skip == ParseLines(lines, i + 1, out_, pending_label, pending_pct)
        step(ln, line_low) ==
            IF ContainsAny(line_low, STOP_MARKERS) THEN out_
            ELSE IF Contains(line_low, <<"based", " ", "on">>)
                    /\ Contains(line_low, <<"responses">>)
            THEN skip
            ELSE IF ContainsAny(line_low, Tail(SECTION_PHRASES)) THEN skip
            ELSE IF Contains(line_low, SECTION_PHRASES[1]) THEN skip
            ELSE IF is_percent(ln)
            THEN (IF Truthy(pending_label) /\ is_label_emp(pending_label)
                  THEN ParseLines(lines, i + 1,
                                  Append(out_, <<pending_label, Strip(ln)>>),
                                  None, None)
                  ELSE ParseLines(lines, i + 1, out_, pending_label,
                                  Strip(ln)))
            ELSE IF PctMatches(ln, 1) # <<>>
            THEN ParseLines(lines, i + 1,
                            out_ \o InlinePairs(ln, pending_label), None, None)
            ELSE IF is_label_emp(ln)
            THEN (IF Truthy(pending_pct) /\ is_percent(pending_pct)
                  THEN ParseLines(lines, i + 1,
                                  Append(out_, <<ln, pending_pct>>), None, None)
                  ELSE IF Truthy(pending_label) /\ ~Truthy(pending_pct)
                  THEN ParseLines(lines, i + 1, out_,
                                  Strip(pending_label \o <<" ">> \o ln),
                                  pending_pct)
                  ELSE ParseLines(lines, i + 1, out_, ln, pending_pct))
            ELSE skip
    IN step(lines[i], LowerStr(lines[i]))

\* a removal that compares the labels as they are written
DedupExact(pairs) ==
    LET keep(idx) ==
            SubSeq([k \in 1..Len(idx) |-> pairs[idx[k]]], 1, Len(idx))
    IN keep(SelectSeq([i \in 1..Len(pairs) |-> i], LAMBDA i :
               \A j \in 1..(i - 1) : pairs[j] # pairs[i]))

\* the removal of repeated (label.lower(), pct) pairs, first one kept
DedupPairs(pairs) ==
    LET keep(idx) ==
            SubSeq([k \in 1..Len(idx) |-> pairs[idx[k]]], 1, Len(idx))
    IN keep(SelectSeq([i \in 1..Len(pairs) |-> i], LAMBDA i :
               \A j \in 1..(i - 1) :
                  ~(/\ LowerStr(pairs[j][1]) = LowerStr(pairs[i][1])
                    /\ pairs[j][2] = pairs[i][2])))

\* parse_ep_from_text without the search for the heading: the loop runs
\* from the first line of the page
ParseEpFromTop(text) ==
    DedupPairs(ParseLines(NonEmptyLines(text), 1, <<>>, None, None))

\* parse_ep_from_text: the (label, pct) pairs of a page
parse_ep_from_text(text) ==
    LET from(lines, hits) ==
            IF hits = {} THEN <<>>
            ELSE DedupPairs(ParseLines(lines, MinOf(hits) + 1, <<>>, None,
                                       None))
        scan(lines) ==
            from(lines, {i \in 1..Len(lines) :
                           ContainsAny(LowerStr(lines[i]), SECTION_PHRASES)})
        tooFew(es, tfr) ==
            /\ es[1] # 0
            /\ tfr[1] # 0
            /\ (tfr[1] > es[1] \/ (tfr[1] = es[1] /\ tfr[2] > es[2]))
        page(low) ==
            IF tooFew(FindInPage(low, SECTION_PHRASES[1]),
                      FindInPage(low, <<"too", " ", "few", " ", "responses">>))
            THEN <<>>
            ELSE scan(NonEmptyLines(text))
    IN page(SubSeq([l \in 1..Len(text) |-> LowerStr(text[l])], 1, Len(text)))

\* the locals of the loop after "out.append((pending_label, clean(ln)))"
\* and the two assignments of None
EmitPending(st, ln) ==
    [st EXCEPT !.out = Append(st.out, <<st.pending_label, Strip(ln)>>),
               !.pending_label = None,
               !.pending_pct = None]

\* a branch that keeps the value it has: pending_pct is assigned only
\* while it is None
StashFirstValue(st, ln) ==
    IF Truthy(st.pending_pct) THEN st
    ELSE [st EXCEPT !.pending_pct = Strip(ln)]

\* the locals of the loop after "pending_pct = clean(ln)"
StashValue(st, ln) ==
    [st EXCEPT !.pending_pct = Strip(ln)]

\* the branch "if is_percent_only_line(ln)"
ValueLine(st, ln) ==
    IF Truthy(st.pending_label) /\ is_label_emp(st.pending_label)
    THEN EmitPending(st, ln)
    ELSE StashValue(st, ln)

\* an inline branch without the two assignments of None at its end
InlineLineKeepsPending(st, ln) ==
    [st EXCEPT !.out = st.out \o InlinePairs(ln, st.pending_label)]

\* the branch "if matches:"
InlineLine(st, ln) ==
    [st EXCEPT !.out = st.out \o InlinePairs(ln, st.pending_label),
               !.pending_label = None,
               !.pending_pct = None]

\* a label branch that stores the line as the pending label whatever is
\* pending
LabelLineStoresLabel(st, ln) ==
    [st EXCEPT !.pending_label = ln]

\* a label branch that replaces a pending label instead of appending to it
LabelLineReplaces(st, ln) ==
    IF Truthy(st.pending_pct) /\ is_percent(st.pending_pct)
    THEN [st EXCEPT !.out = Append(st.out, <<ln, st.pending_pct>>),
                    !.pending_label = None,
                    !.pending_pct = None]
    ELSE [st EXCEPT !.pending_label = ln]

\* the branch "if is_label(ln)"
LabelLine(st, ln) ==
    IF Truthy(st.pending_pct) /\ is_percent(st.pending_pct)
    THEN [st EXCEPT !.out = Append(st.out, <<ln, st.pending_pct>>),
                    !.pending_label = None,
                    !.pending_pct = None]
    ELSE IF Truthy(st.pending_label) /\ ~Truthy(st.pending_pct)
    THEN [st EXCEPT !.pending_label =
                        Strip(st.pending_label \o <<" ">> \o ln)]
    ELSE [st EXCEPT !.pending_label = ln]

\* which statement of the loop body takes the line ln: "break", "continue"
\* (boilerplate), one of the three branches, or none of them
LineKind(ln) ==
    IF ContainsAny(LowerStr(ln), STOP_MARKERS) THEN "break"
    ELSE IF Contains(LowerStr(ln), <<"based", " ", "on">>)
            /\ Contains(LowerStr(ln), <<"responses">>)
    THEN "continue"
    ELSE IF ContainsAny(LowerStr(ln), SECTION_PHRASES) THEN "continue"
    ELSE IF is_percent(ln) THEN "value"
    ELSE IF PctMatches(ln, 1) # <<>> THEN "inline"
    ELSE IF is_label_emp(ln) THEN "label"
    ELSE "none"

\* the early returns of parse_ep_from_text: "too few responses" after the
\* section phrase, or no line with a section phrase
ParseReturnsEarly(text) ==
    LET low == SubSeq([l \in 1..Len(text) |-> LowerStr(text[l])],
                      1, Len(text))
        es == FindInPage(low, SECTION_PHRASES[1])
        tfr == FindInPage(low, <<"too", " ", "few", " ", "responses">>)
    IN \/ /\ es[1] # 0 /\ tfr[1] # 0
          /\ (tfr[1] > es[1] \/ (tfr[1] = es[1] /\ tfr[2] > es[2]))
       \/ \A i \in 1..Len(NonEmptyLines(text)) :
             ~ContainsAny(LowerStr(NonEmptyLines(text)[i]), SECTION_PHRASES)

\* start: the index of the first line with a section phrase
ParseStart(lines) ==
    MinOf({i \in 1..Len(lines) :
             ContainsAny(LowerStr(lines[i]), SECTION_PHRASES)})

\* the dict best_for_method after the pairs parsed[i..], as the sequence of
\* its items: a method keeps the place of its first pair and the pair
\* whose pct_to_num is greatest, the earliest among equals
RECURSIVE BestForMethod(_, _, _)
BestForMethod(parsed, i, best) ==
    IF i > Len(parsed) THEN best
    ELSE
    LET item(mk) ==
            [Method |-> mk, method |-> parsed[i][1], percent |-> parsed[i][2]]
        put(mk, at) ==
            IF mk = NoMethod THEN best
            ELSE IF at = 0 THEN Append(best, item(mk))
            ELSE IF pct_to_num(parsed[i][2]) > pct_to_num(best[at].percent)
            THEN [best EXCEPT ![at] = item(mk)]
            ELSE best
        find(mk) ==
            put(mk, IF \E k \in 1..Len(best) : best[k].Method = mk
                    THEN CHOOSE k \in 1..Len(best) : best[k].Method = mk
                    ELSE 0)
    IN BestForMethod(parsed, i + 1, find(method_key(parsed[i][1])))

-----------------------------------------------------------------------------
(* graduate outcomes: the cells and rows of a table *)

\* clean(x): "" for None, else the text with newlines as spaces, stripped
clean(x) == IF x = None THEN <<>> ELSE Strip(ReplaceTok(x, "\n", <<" ">>))

\* is_count(x): all digits once the commas are removed
is_count(x) ==
    LET digits(s) == s # <<>> /\ \A i \in 1..Len(s) : IsDigitTok(s[i])
    IN digits(SelectSeq(clean(x), LAMBDA t : t # ","))

\* is_percent(x) of the outcomes script: percent_re on the cleaned cell
\* without its spaces
is_percent_cell(x) == PercentMatch(NoSpaces(clean(x)))

\* no_percent_re: ^<?\d+(?:\.\d+)?$
NoPercentMatch(s) ==
    /\ Len(s) >= 1
    /\ NumberEnd(s, IF s[1] = "<" THEN 2 ELSE 1) = Len(s) + 1

\* is_label(s) of the outcomes script
is_label_out(s0) ==
    LET lab(s, low) ==
            /\ s # <<>>
            /\ ~is_count(s)
            /\ ~is_percent_cell(s)
            /\ low \notin {<<"outcome">>, <<"#">>, <<"%">>}
            /\ ~Contains(low, <<"reported", " ", "outcomes">>)
            /\ ~Contains(low, <<"graduate", " ", "outcomes">>)
    IN lab(clean(s0), LowerStr(clean(s0)))

\* find_label(row): the first of the longest cells that look like labels
find_label(row) ==
    LET pick(labels) ==
            IF labels = <<>> THEN <<>>
            ELSE labels[CHOOSE i \in 1..Len(labels) :
                   /\ \A j \in 1..Len(labels) :
                         KeyLen(labels[j]) <= KeyLen(labels[i])
                   /\ \A j \in 1..(i - 1) :
                         KeyLen(labels[j]) < KeyLen(labels[i])]
        cleaned(cells) ==
            SubSeq([i \in 1..Len(cells) |-> clean(cells[i])], 1, Len(cells))
    IN pick(cleaned(SelectSeq(row, is_label_out)))

\* find_count(row): the first cell that is a count
find_count(row) ==
    LET first(hits) == IF hits = <<>> THEN <<>> ELSE clean(hits[1])
    IN first(SelectSeq(row, is_count))

\* find_percent(row): the first cell that is a percent, or a number whose
\* next cell is the % sign
find_percent(row) ==
    LET cell(i) == NoSpaces(clean(row[i]))
        hit(i) ==
            \/ PercentMatch(cell(i))
            \/ /\ NoPercentMatch(cell(i))
               /\ i + 1 <= Len(row)
               /\ clean(row[i + 1]) = <<"%">>
        value(c) == IF PercentMatch(c) THEN c ELSE c \o <<"%">>
        first(hits) == IF hits = {} THEN <<>> ELSE value(cell(MinOf(hits)))
    IN first({i \in 1..Len(row) : hit(i)})

-----------------------------------------------------------------------------
(* graduate outcomes: get_page_title *)

BAD_CONTAINS ==
    << <<"survey", " ", "response", " ", "rate">>,
       <<"knowledge", " ", "rate">>,
       <<"total", " ", "placement">>,
       <<"reported", " ", "outcomes">>,
       <<"graduate", " ", "outcomes">>,
       <<"as", " ", "of">>,
       <<"data", " ", "from">>,
       <<"had", " ", "been", " ", "collected">>,
       <<"via", " ", "the", " ", "survey">>,
       <<"between">> >>

\* sum(ch.isdigit() for ch in ln)
DigitChars(ln) == KeyLen(SelectSeq(ln, IsDigitTok))

\* is_good_title(ln)
is_good_title(ln) ==
    LET good(low) ==
            /\ low # <<"maryland">>
            /\ ~ContainsAny(low, BAD_CONTAINS)
            /\ \A i \in 1..Len(ln) : ln[i] \notin {"%", "#"}
            /\ KeyLen(ln) <= 80
            /\ ~(DigitChars(ln) >= 2 /\ ~HasUniversityWide(low))
            /\ \E i \in 1..Len(ln) : IsWordTok(ln[i])
    IN good(Strip(LowerStr(ln)))

\* get_page_title: the first good line among the first 25, joined with the
\* good lines of at most 60 characters among the three that follow it
get_page_title(text) ==
    LET last(lines, s) ==
            CHOOSE e \in s..Min(s + 3, Len(lines)) :
               /\ \A j \in (s + 1)..e :
                     is_good_title(lines[j]) /\ KeyLen(lines[j]) <= 60
               /\ \/ e = Min(s + 3, Len(lines))
                  \/ ~(is_good_title(lines[e + 1])
                         /\ KeyLen(lines[e + 1]) <= 60)
        title(lines, starts) ==
            IF starts = {} THEN <<>>
            ELSE JoinWs(SubSeq(lines, MinOf(starts),
                               last(lines, MinOf(starts))))
        scan(lines) ==
            title(lines, {i \in 1..Min(25, Len(lines)) :
                             is_good_title(lines[i])})
    IN scan(NonEmptyLines(text))

-----------------------------------------------------------------------------
(* graduate outcomes: is_outcomes_table, parse_outcomes_table *)

\* the verdict of is_outcomes_table on the rows rws it looks at
TableVerdict(rws) ==
    LET verdict(labels, score) ==
            [check |->
                /\ score >= 3
                /\ \E k \in 1..Len(labels) :
                      \/ Contains(labels[k], <<"employed">>)
                      \/ Contains(labels[k], <<"unplaced">>)
                      \/ Contains(labels[k], <<"unresolved">>),
             score |-> score]
    IN verdict(SelectSeq(SubSeq([k \in 1..Len(rws) |->
                                   LowerStr(find_label(rws[k]))],
                                1, Len(rws)),
                         LAMBDA lab : lab # <<>>),
               Cardinality({k \in 1..Len(rws) :
                              /\ find_label(rws[k]) # <<>>
                              /\ find_count(rws[k]) # <<>>
                              /\ find_percent(rws[k]) # <<>>}))

\* is_outcomes_table with every row of the table looked at
IsOutcomesTableAllRows(table) ==
    TableVerdict(SelectSeq(table, LAMBDA r : r # <<>>))

\* is_outcomes_table(table): (check, score) from the rows table[:15] that
\* are not empty
is_outcomes_table(table) ==
    TableVerdict(SelectSeq(SubSeq(table, 1, Min(15, Len(table))),
                           LAMBDA r : r # <<>>))

\* a token 20\d{2}
IsYearTok(t) ==
    IsDigitTok(t) /\ TokLen(t) = 4 /\ IntOf(t) >= 2000 /\ IntOf(t) <= 2099

\* a character of \w, as a token
IsWordChar(t) == t # "\n" /\ (IsDigitTok(t) \/ IsWordTok(t) \/ t = "_")

\* re.sub(r"\b20\d{2}\s+graduates\b", "", label, flags=re.IGNORECASE)
RemoveYearGraduates(label) ==
    LET stop(i) == SkipWs(label, i + 1)
        at(i) ==
            /\ IsYearTok(label[i])
            /\ (i = 1 \/ ~IsWordChar(label[i - 1]))
            /\ stop(i) > i + 1
            /\ stop(i) <= Len(label)
            /\ Lower(label[stop(i)]) = "graduates"
            /\ (stop(i) = Len(label) \/ ~IsWordChar(label[stop(i) + 1]))
        inside(j) == \E i \in 1..j : at(i) /\ j <= stop(i)
    IN SelectSeq(SubSeq([j \in 1..Len(label) |->
                           IF inside(j) THEN "" ELSE label[j]],
                        1, Len(label)),
                 LAMBDA t : t # "")

\* the label of a row as parse_outcomes_table cleans it.  The loop over
\* irrelevant_phrases changes nothing: every phrase contains "reported
\* outcomes" or "graduate outcomes", and is_label rejects a cell with either
RowLabel(r) == Strip(CollapseWs(Strip(RemoveYearGraduates(find_label(r)))))

\* label.strip().lower().startswith("not seeking")
StartsNotSeeking(label) ==
    LET starts(low) ==
            /\ Len(low) >= 3
            /\ low[1] = "not"
            /\ low[2] = " "
            /\ SubWord("seeking", low[3]) \in {"whole", "prefix"}
    IN starts(LowerStr(Strip(label)))

\* the loop of parse_outcomes_table from row i on; last is the last row of
\* result
RECURSIVE ParseRows(_, _, _, _)
ParseRows(table, i, result, pending_label) ==
    LET next(res, pending) == ParseRows(table, i + 1, res, pending)
        keep(label, cnt, pct) ==
            IF label = <<>> \/ LowerStr(label) = <<"outcome">>
            THEN next(result, <<>>)
            ELSE IF cnt # <<>>
                    /\ \/ pct # <<>>
                       \/ LowerStr(Strip(label)) = <<"total">>
                       \/ StartsNotSeeking(label)
            THEN next(Append(result, [outcome |-> label, count |-> cnt,
                                      percent |-> pct]), <<>>)
            ELSE next(result, IF cnt = <<>> THEN label ELSE <<>>)
        row(label, cnt, pct) ==
            IF label # <<>> /\ cnt = <<>> /\ pct = <<>>
            THEN IF result # <<>>
                 THEN next([result EXCEPT ![Len(result)].outcome =
                                Strip(@ \o <<" ">> \o label)],
                           pending_label)
                 ELSE next(result, Strip(pending_label \o <<" ">> \o label))
            ELSE IF pending_label = <<>> THEN keep(label, cnt, pct)
            ELSE IF label = <<>> THEN keep(pending_label, cnt, pct)
            ELSE keep(Strip(pending_label \o <<" ">> \o label), cnt, pct)
    IN IF i > Len(table) THEN result
       ELSE IF table[i] = <<>> THEN next(result, pending_label)
       ELSE row(RowLabel(table[i]), find_count(table[i]),
                find_percent(table[i]))

\* a parser that passes over the rows that hold a label and nothing else
ParseSkipsLabelRows(table) ==
    ParseRows(SelectSeq(table,
                        LAMBDA r : ~(/\ RowLabel(r) # <<>>
                                     /\ find_count(r) = <<>>
                                     /\ find_percent(r) = <<>>)),
              1, <<>>, <<>>)

\* parse_outcomes_table(table)
parse_outcomes_table(table) == ParseRows(table, 1, <<>>, <<>>)
-----------------------------------------------------------------------------
(* graduate outcomes: get_total_and_not_seeking, outcome_key, pct_to_float *)

\* page.extract_text(): the lines of the page joined by newlines
PageText(text) ==
    Flat([k \in 1..Len(text) |->
            IF k = 1 THEN text[1] ELSE <<"\n">> \o text[k]])

\* the end (exclusive) of the run \s* that starts at position i
RECURSIVE SkipSpace(_, _)
SkipSpace(s, i) ==
    IF i <= Len(s) /\ s[i] \in {" ", "\n"} THEN SkipSpace(s, i + 1) ELSE i

\* \bTOTAL\b\s+([\d,]+)(?:\s+(\d+(\.\d+)?%))? matched at position i:
\* groups 1 and 2, or NoMatch
TotalAt(s, i) ==
    LET percent(p) ==
            IF /\ NumberEnd(s, p) # 0
               /\ NumberEnd(s, p) <= Len(s)
               /\ s[NumberEnd(s, p)] = "%"
            THEN SubSeq(s, p, NumberEnd(s, p)) ELSE <<>>
        groups(c, e) ==
            IF e = c THEN NoMatch
            ELSE <<SubSeq(s, c, e - 1),
                   IF SkipSpace(s, e) > e
                   THEN percent(SkipSpace(s, e)) ELSE <<>> >>
        count(c) == IF c = i + 1 THEN NoMatch ELSE groups(c, DigitRunEnd(s, c))
    IN IF Lower(s[i]) = "total" /\ (i = 1 \/ ~IsWordChar(s[i - 1]))
       THEN count(SkipSpace(s, i + 1)) ELSE NoMatch

\* \bNot\s+Seeking\b\s+([\d,]+)\b matched at position i: group 1, or NoMatch.
\* The run [\d,]+ gives back tokens until a word boundary follows it
NotSeekingAt(s, i) ==
    LET boundary(e) ==
            IsWordChar(s[e]) # (e + 1 <= Len(s) /\ IsWordChar(s[e + 1]))
        longest(c, ends) ==
            IF ends = {} THEN NoMatch
            ELSE <<SubSeq(s, c, CHOOSE e \in ends :
                                    \A f \in ends : f <= e)>>
        count(c, e) == longest(c, {f \in c..(e - 1) : boundary(f)})
        seeking(k, c) ==
            IF k <= Len(s) /\ Lower(s[k]) = "seeking" /\ c > k + 1
            THEN count(c, DigitRunEnd(s, c)) ELSE NoMatch
        word(k) ==
            IF k = i + 1 THEN NoMatch ELSE seeking(k, SkipSpace(s, k + 1))
    IN IF Lower(s[i]) = "not" /\ (i = 1 \/ ~IsWordChar(s[i - 1]))
       THEN word(SkipSpace(s, i + 1)) ELSE NoMatch

\* get_total_and_not_seeking(page_text)
get_total_and_not_seeking(page_text) ==
    LET total(m) ==
            IF m = NoMatch THEN <<>>
            ELSE <<[outcome |-> <<"TOTAL">>, count |-> m[1],
                    percent |-> m[2]]>>
        seeking(m) ==
            IF m = NoMatch THEN <<>>
            ELSE <<[outcome |-> <<"Not", " ", "Seeking">>, count |-> m[1],
                    percent |-> <<>>]>>
    IN total(FirstHit(1, Len(page_text), LAMBDA i : TotalAt(page_text, i)))
       \o seeking(FirstHit(1, Len(page_text),
                           LAMBDA i : NotSeekingAt(page_text, i)))

\* the names outcome_key gives
O_EMPLOYED_FT == "Employed FT"
O_EMPLOYED_PT == "Employed PT"
O_CONTINUING == "Continuing Edu"
O_VOLUNTEERING == "Volunteering"
O_MILITARY == "Military"
O_BUSINESS == "Business"
O_UNPLACED == "Unplaced"
O_UNRESOLVED == "Unresolved"
O_TOTAL == "Total"
O_NOT_SEEKING == "Not Seeking"
NoOutcome == "<None>"

\* re.search(r"\btotal\b", s)
HasTotalWord(s) ==
    \E i \in 1..Len(s) :
       /\ s[i] = "total"
       /\ (i = 1 \/ ~IsWordChar(s[i - 1]))
       /\ (i = Len(s) \/ ~IsWordChar(s[i + 1]))

\* outcome_key(s)
outcome_key(s0) ==
    LET key(s) ==
            IF Contains(s, <<"employed">>) /\ Contains(s, <<"ft">>)
            THEN O_EMPLOYED_FT
            ELSE IF Contains(s, <<"employed">>) /\ Contains(s, <<"pt">>)
            THEN O_EMPLOYED_PT
            ELSE IF Contains(s, <<"continuing">>)
                    /\ Contains(s, <<"education">>)
            THEN O_CONTINUING
            ELSE IF \/ Contains(s, <<"volunteer">>)
                    \/ Contains(s, <<"service", " ", "program">>)
            THEN O_VOLUNTEERING
            ELSE IF Contains(s, <<"military">>) THEN O_MILITARY
            ELSE IF Contains(s, <<"business">>) THEN O_BUSINESS
            ELSE IF Contains(s, <<"unplaced">>) THEN O_UNPLACED
            ELSE IF Contains(s, <<"unresolved">>) THEN O_UNRESOLVED
            ELSE IF HasTotalWord(s) THEN O_TOTAL
            ELSE IF Contains(s, <<"not", " ", "seeking">>) THEN O_NOT_SEEKING
            ELSE NoOutcome
    IN key(LowerStr(IF s0 = None THEN <<>> ELSE s0))

\* numpy's nan where a number in hundredths is expected
NaN == -1000000

\* pct_to_float(x), in hundredths.  x[:-1] drops the last character, the %
\* sign every value of the percent columns ends with (a value that ends
\* with a longer run of digits or letters is outside the model); a missing
\* cell reads as "nan", which is no number
pct_to_float(x0) ==
    LET num(x) ==
            IF x = <<>> THEN NaN
            ELSE IF x[1] = "<" /\ x[Len(x)] = "%" THEN 100
            ELSE IF TokLen(x[Len(x)]) = 1
            THEN FloatOr(SubSeq(x, 1, Len(x) - 1), NaN)
            ELSE NaN
    IN IF x0 = None THEN NaN ELSE num(Strip(x0))

-----------------------------------------------------------------------------
(* The report folder: file names and the year of a file *)

\* the names a file of the report folder can have, listed in sorted() order
FILE_2019_A == <<"2019", "_", "a", ".", "pdf">>
FILE_2019_REPORT == <<"2019", "_", "report", ".", "pdf">>
FILE_2020_REPORT == <<"2020", "_", "report", ".", "pdf">>
FILE_REPORT == <<"report", ".", "pdf">>
FileNames == <<FILE_2019_A, FILE_2019_REPORT, FILE_2020_REPORT, FILE_REPORT>>
FileIds == 1..Len(FileNames)

\* the digit runs of the vocabulary that 20\d{2} matches
YearToks == {"2018", "2019", "2020"}

\* Python's None where a year is expected
NoYear == -1

\* re.match(r"^(20\d{2})", fname): the year, or NoYear
LeadingYear(fname) ==
    IF fname # <<>> /\ fname[1] \in YearToks THEN IntOf(fname[1]) ELSE NoYear

\* re.search(r"(20\d{2})\s*[-–]\s*(20\d{2})", fname): group 2 of the leftmost
\* match, or NoYear
RangeYear(fname) ==
    LET n == Len(fname)
        dashAt(i) == SkipWs(fname, i + 1)
        secondAt(i) == SkipWs(fname, dashAt(i) + 1)
        ok(i) == /\ fname[i] \in YearToks
                 /\ dashAt(i) <= n /\ fname[dashAt(i)] \in {"-", EN_DASH}
                 /\ secondAt(i) <= n /\ fname[secondAt(i)] \in YearToks
        hits == {i \in 1..n : ok(i)}
    IN IF hits = {} THEN NoYear ELSE IntOf(fname[secondAt(MinOf(hits))])

\* re.findall(r"20\d{2}", fname) as integers
FindYears(fname) ==
    LET toks == SelectSeq(fname, LAMBDA t : t \in YearToks)
    IN SubSeq([i \in 1..Len(toks) |-> IntOf(toks[i])], 1, Len(toks))

\* max() of a non-empty sequence of integers
MaxOfSeq(q) == CHOOSE x \in {q[i] : i \in 1..Len(q)} :
                  \A i \in 1..Len(q) : q[i] <= x

\* internship wage: infer_year_from_filename
infer_year_from_filename_wage(fname) ==
    IF LeadingYear(fname) # NoYear THEN LeadingYear(fname)
    ELSE IF RangeYear(fname) # NoYear THEN RangeYear(fname)
    ELSE IF FindYears(fname) # <<>> THEN FindYears(fname)[1]
    ELSE NoYear

\* employment search: infer_year_from_filename
infer_year_from_filename_emp(fname) ==
    IF LeadingYear(fname) # NoYear THEN LeadingYear(fname)
    ELSE IF RangeYear(fname) # NoYear THEN RangeYear(fname)
    ELSE IF FindYears(fname) # <<>> THEN MaxOfSeq(FindYears(fname))
    ELSE NoYear

\* outcomes: df["pdf"].str.extract(r"(20\d{2})"), the first match or NA
ExtractYear(fname) ==
    IF FindYears(fname) # <<>> THEN FindYears(fname)[1] ELSE NoYear

\* top employers: year_from_filename
year_from_filename(fname) ==
    IF FindYears(fname) # <<>> THEN FindYears(fname)[1] ELSE NoYear

\* the set of the members of a sequence
Range(q) == {q[i] : i \in 1..Len(q)}

\* sorted(S) of a set of integers
SortedInts(S) ==
    SubSeq([r \in 1..Cardinality(S) |->
              CHOOSE x \in S : Cardinality({y \in S : y < x}) = r - 1],
           1, Cardinality(S))

-----------------------------------------------------------------------------
(* Bounds *)

\* the most files in the report folder
MaxDocs == 2

\* the most pages the documents of the folder hold together
MaxPages == 3

\* the most faults the document reader raises in a run
MaxFaults == 1

-----------------------------------------------------------------------------
(* Frames and sorting *)

\* pd.MultiIndex.from_product([a, b]): the pairs, first member slowest
from_product(a, b) ==
    SubSeq([k \in 1..(Len(a) * Len(b)) |->
              <<a[((k - 1) \div Len(b)) + 1], b[((k - 1) % Len(b)) + 1]>>],
           1, Len(a) * Len(b))

\* a stable sort of the sequence q by the strict order Before
SortRows(q, Before(_, _)) ==
    LET place(rank) ==
            SubSeq([r \in 1..Len(q) |->
                      q[CHOOSE i \in 1..Len(q) : rank[i] = r - 1]],
                   1, Len(q))
    IN place(SubSeq([i \in 1..Len(q) |->
                       Cardinality({j \in 1..Len(q) :
                          \/ Before(q[j], q[i])
                          \/ ~Before(q[i], q[j]) /\ j < i})],
                    1, Len(q)))

\* the grid left in the order of full_index: no final sort
KeepOrder(grid) == grid

\* sort_values(["Year", "Unit_cat"]) with Unit_cat the categorical of
\* unit_order: year ascending, then the position of the unit in unit_order
FinalSort(grid) ==
    SortRows(grid, LAMBDA a, b :
        \/ a.Year < b.Year
        \/ a.Year = b.Year /\ UnitIndex(a.Unit) < UnitIndex(b.Unit))

\* a reindex that keeps only the entries of full_index the frame has: no
\* blank row is made for the others
ReindexInner(wide, full_index, blank) ==
    LET keys == SelectSeq(full_index, LAMBDA key : key \in DOMAIN wide)
    IN SubSeq([k \in 1..Len(keys) |-> <<keys[k], wide[keys[k]]>>],
              1, Len(keys))

\* a reindex that keeps the rows of the frame that full_index lacks, after
\* those of full_index
ReindexOuter(wide, full_index, blank) ==
    LET left(keys) ==
            SubSeq([k \in 1..Len(keys) |-> <<keys[k], wide[keys[k]]>>],
                   1, Len(keys))
        ordered(S) ==
            SubSeq([r \in 1..Cardinality(S) |->
                      CHOOSE x \in S :
                         Cardinality({y \in S : UnitIndex(y[1]) < UnitIndex(x[1])
                                        \/ (UnitIndex(y[1]) = UnitIndex(x[1])
                                            /\ y[2] < x[2])}) = r - 1],
                   1, Cardinality(S))
    IN SubSeq([k \in 1..Len(full_index) |->
                 IF full_index[k] \in DOMAIN wide
                 THEN <<full_index[k], wide[full_index[k]]>>
                 ELSE <<full_index[k], blank>>],
              1, Len(full_index))
       \o left(ordered(DOMAIN wide \ Range(full_index)))

\* frame.reindex(full_index) of a frame indexed by tuples: one row per
\* entry of full_index, with the cells of the frame where it has the entry and
\* blank cells elsewhere; rows of the frame that full_index lacks are dropped
Reindex(wide, full_index, blank) ==
    SubSeq([k \in 1..Len(full_index) |->
              IF full_index[k] \in DOMAIN wide
              THEN <<full_index[k], wide[full_index[k]]>>
              ELSE <<full_index[k], blank>>],
           1, Len(full_index))

\* the pages a document may hold at the next position: a page of the
\* catalogue, or 0 for the end of the document
PageChoices(n) == IF npages < MaxPages THEN 0..n ELSE {0}

-----------------------------------------------------------------------------
(* internship wage: the pages *)

\* a page that opens the section of a unit and holds no figures
WP_TITLE_EDUC ==
    << <<"College", " ", "of", " ", "Education">>,
       <<"Graduation", " ", "Survey", " ", "Report">> >>

\* a page with wage figures and no unit
WP_WAGE ==
    << <<"of", " ", "the", " ", "120", " ", "internship", " ", "experiences",
         " ", "that", " ", "paid", " ", "an", " ", "hourly", " ", "wage",
         ",", " ", "the", " ", "average", " ", "was", " ", "$", "18", ".",
         "50", " ", "and", " ", "the", " ", "median", " ", "was", " ", "$",
         "17", ".", "00", " ", "per", " ", "hour", ".">> >>

\* a page with only the total of experiences and no unit
WP_TOTAL ==
    << <<"a", " ", "total", " ", "of", " ", "250", " ", "internship", " ",
         "experiences", " ", "were", " ", "reported", ".">> >>

\* a page that opens a unit and holds its total
WP_TITLE_TOTAL_SPHL ==
    << <<"School", " ", "of", " ", "Public", " ", "Health">>,
       <<"a", " ", "total", " ", "of", " ", "30", " ", "internship", " ",
         "experiences", " ", "were", " ", "reported", ".">> >>

\* a page with wage figures whose footer names a unit
WP_WAGE_FOOT_EDUC ==
    << <<"of", " ", "the", " ", "10", " ", "experiences", " ", "that", " ",
         "paid", " ", "an", " ", "hourly", " ", "rate", ",", " ", "the", " ",
         "median", " ", "was", " ", "$", "17", " ", "and", " ", "the", " ",
         "mean", " ", "was", " ", "$", "18", ".">>,
       <<"EDUC", " ", "3">> >>

\* a page that opens a unit and whose footer carries the code of another
WP_TITLE_SPHL_FOOT_EDUC ==
    << <<"School", " ", "of", " ", "Public", " ", "Health">>,
       <<"a", " ", "total", " ", "of", " ", "30", " ", "internship", " ",
         "experiences", " ", "were", " ", "reported", ".">>,
       <<"EDUC", " ", "3">> >>

\* a page that names a unit inside a sentence and whose footer carries the
\* code of another
WP_MENTION_INFO_FOOT_EDUC ==
    << <<"a", " ", "total", " ", "of", " ", "30", " ", "internship", " ",
         "experiences", " ", "were", " ", "reported", " ", "with", " ", "the",
         " ", "College", " ", "of", " ", "Information", ".">>,
       <<"EDUC", " ", "3">> >>

\* a page without text
WP_BLANK ==
    << <<" ">> >>

WagePages ==
    <<WP_TITLE_EDUC, WP_WAGE, WP_TOTAL, WP_TITLE_TOTAL_SPHL, WP_WAGE_FOOT_EDUC,
      WP_BLANK, WP_TITLE_SPHL_FOOT_EDUC, WP_MENTION_INFO_FOOT_EDUC>>

\* raw.strip() of a page text is empty
IsBlank(text) == \A i \in 1..Len(text) : Strip(text[i]) = <<>>

\* a or b of two values that are None or a string
OrElse(a, b) == IF Truthy(a) THEN a ELSE b

\* the unit of a page with the footer scan tried before the top-of-page scan
PageUnitFooterFirst(raw) ==
    OrElse(extract_unit_from_footer(raw),
           OrElse(extract_unit_candidate_wage(raw), extract_unit_anywhere(raw)))

\* the unit the main loop detects on a page, best source first
page_unit(raw) ==
    OrElse(extract_unit_candidate_wage(raw),
           OrElse(extract_unit_from_footer(raw), extract_unit_anywhere(raw)))

\* what the page loop computes from the text of one page
WageExtract(raw) ==
    [blank |-> IsBlank(raw),
     top |-> extract_unit_candidate_wage(raw),
     footer |-> extract_unit_from_footer(raw),
     anywhere |-> extract_unit_anywhere(raw),
     unit |-> page_unit(raw),
     start |-> page_starts_with_unit(raw),
     metrics |-> parse_metrics(raw)]

\* a lookahead with the looser test: any unit found on the following page
LookaheadAnywhere(la) ==
    IF la = 0 THEN None
    ELSE IF Truthy(extracted[la].unit) THEN extracted[la].unit
    ELSE None

\* lookahead_unit_start with max_ahead=1: la is the page after the current
\* one, 0 when the current page is the last
lookahead_unit_start(la) ==
    IF la = 0 THEN None
    ELSE IF Truthy(extracted[la].start) THEN extracted[la].start
    ELSE None

-----------------------------------------------------------------------------
(* internship wage: the main loop *)

\* f.lower().endswith(".pdf")
IsPdfAnyCase(fname) ==
    Len(fname) >= 2 /\ Lower(fname[Len(fname)]) = "pdf"
                    /\ fname[Len(fname) - 1] = "."

\* years_in_folder
years_in_folder ==
    SortedInts({infer_year_from_filename_wage(FileNames[files[i]]) :
                   i \in 1..Len(files)} \ {NoYear})

\* for file in pdf_files: the next file; one without a year is passed
\* over, any other is opened and current_unit starts as None
WageNextFile ==
    /\ script = "wage" /\ phase = "reading"
    /\ nxt = 0 /\ fi < Len(files)
    /\ fi' = fi + 1
    /\ \E p \in PageChoices(Len(WagePages)) :
          nxt' = IF infer_year_from_filename_wage(FileNames[files[fi + 1]])
                      = NoYear
                 THEN 0 ELSE p
    /\ npages' = IF nxt' = 0 THEN npages ELSE npages + 1
    /\ page_index' = 0
    /\ current_unit' =
          IF infer_year_from_filename_wage(FileNames[files[fi + 1]]) = NoYear
          THEN current_unit ELSE None
    /\ UNCHANGED <<script, chars, unit_lookup, arg, ret, extracted, files,
                   rows, phase, out, faults, parser, extractor>>

\* the unit of the record of a data page
WageRecordUnit(pu, la) ==
    IF Truthy(pu) THEN pu
    ELSE IF Truthy(lookahead_unit_start(la)) THEN lookahead_unit_start(la)
    ELSE OrElse(current_unit, U_UW)

\* the body of "for page_index, page in enumerate(pdf.pages)" for the page
\* nxt, la being the page that follows it
WagePage ==
    /\ script = "wage" /\ phase = "reading"
    /\ nxt # 0
    /\ \E la \in PageChoices(Len(WagePages)) :
          LET pu == extracted[nxt].unit
              metrics == extracted[nxt].metrics
              data == ~extracted[nxt].blank /\ metrics # NoMetrics
              unit == canonicalize_unit_wage(WageRecordUnit(pu, la))
          IN /\ nxt' = la
             /\ current_unit' =
                   IF extracted[nxt].blank THEN current_unit
                   ELSE IF Truthy(pu) THEN pu
                   ELSE IF data /\ Truthy(lookahead_unit_start(la))
                   THEN lookahead_unit_start(la)
                   ELSE current_unit
             /\ rows' =
                   IF data
                   THEN Append(rows,
                          [Year |-> infer_year_from_filename_wage(
                                       FileNames[files[fi]]),
                           Unit |-> unit,
                           n |-> metrics.n, avg |-> metrics.avg,
                           med |-> metrics.med,
                           pdf |-> files[fi],
                           page |-> page_index + 1,
                           priority |-> metrics.priority])
                   ELSE rows
    /\ npages' = IF nxt' = 0 THEN npages ELSE npages + 1
    /\ page_index' = page_index + 1
    /\ UNCHANGED <<script, chars, unit_lookup, arg, ret, extracted, files,
                   fi, phase, out, faults, parser, extractor>>


\* pdfplumber.open raises for the next file, one with a year: "except
\* Exception: continue" passes to the file after it
WageOpenFault ==
    /\ script = "wage" /\ phase = "reading"
    /\ nxt = 0 /\ fi < Len(files)
    /\ Len(faults) < MaxFaults
    /\ infer_year_from_filename_wage(FileNames[files[fi + 1]]) # NoYear
    /\ fi' = fi + 1
    /\ faults' = Append(faults, [at |-> "open", doc |-> fi + 1, page |-> 0])
    /\ UNCHANGED <<script, chars, unit_lookup, arg, ret, extracted, files,
                   nxt, page_index, npages, current_unit, rows, phase, out,
                   parser, extractor>>

\* page.extract_text() raises for the page nxt: the inner "except
\* Exception: continue" passes to the page after it
WagePageFault ==
    /\ script = "wage" /\ phase = "reading"
    /\ nxt # 0
    /\ Len(faults) < MaxFaults
    /\ \E la \in PageChoices(Len(WagePages)) : nxt' = la
    /\ npages' = IF nxt' = 0 THEN npages ELSE npages + 1
    /\ page_index' = page_index + 1
    /\ faults' = Append(faults,
                        [at |-> "page", doc |-> fi, page |-> page_index + 1])
    /\ UNCHANGED <<script, chars, unit_lookup, arg, ret, extracted, files,
                   fi, current_unit, rows, phase, out, parser, extractor>>

\* pdf.pages[k].extract_text() raises inside lookahead_unit_start, which
\* the loop calls for a data page without a unit of its own that has a
\* page after it: the call stands outside the inner try, so the outer
\* "except Exception: continue" ends the document before rows.append
WageLookaheadFault ==
    /\ script = "wage" /\ phase = "reading"
    /\ nxt # 0
    /\ Len(faults) < MaxFaults
    /\ ~extracted[nxt].blank
    /\ ~Truthy(extracted[nxt].unit)
    /\ extracted[nxt].metrics # NoMetrics
    /\ npages < MaxPages
    /\ nxt' = 0
    /\ npages' = npages + 1
    /\ page_index' = page_index + 1
    /\ faults' = Append(faults,
                        [at |-> "lookahead", doc |-> fi,
                         page |-> page_index + 1])
    /\ UNCHANGED <<script, chars, unit_lookup, arg, ret, extracted, files,
                   fi, current_unit, rows, phase, out, parser, extractor>>

-----------------------------------------------------------------------------
(* internship wage: the output *)

\* sorted(unit_order): the order sort_values gives the Unit strings
UnitsSorted ==
    <<U_CPS, U_AGNR, U_ARHU, U_BSOS, U_CMNS, U_EDUC, U_INFO, U_HNRS, U_LTSC,
      U_JOUR, U_ARCH, U_SPHL, U_PLCY, U_ENGR, U_BMGT, U_UGST, U_UW>>
UnitAlpha(u) == CHOOSE i \in 1..Len(UnitsSorted) : UnitsSorted[i] = u

\* df.sort_values(["Year", "Unit", "priority", "page"],
\*                ascending=[True, True, False, True])
WageSort(df) ==
    SortRows(df, LAMBDA a, b :
        \/ a.Year < b.Year
        \/ a.Year = b.Year /\ UnitAlpha(a.Unit) < UnitAlpha(b.Unit)
        \/ a.Year = b.Year /\ a.Unit = b.Unit /\ a.priority > b.priority
        \/ a.Year = b.Year /\ a.Unit = b.Unit /\ a.priority = b.priority
              /\ a.page < b.page)

\* drop_duplicates(["Year", "Unit"], keep="first")
DropDuplicates(df) ==
    LET keep == SelectSeq([i \in 1..Len(df) |-> i], LAMBDA i :
                   \A j \in 1..(i - 1) :
                      ~(df[j].Year = df[i].Year /\ df[j].Unit = df[i].Unit))
    IN SubSeq([k \in 1..Len(keep) |-> df[keep[k]]], 1, Len(keep))

\* a deduplication that keeps the first record collected for a (Year, Unit)
DedupeUnsorted(df) == DropDuplicates(df)

\* the deduplication per (Year, Unit)
WageDedupe(df) == IF df = <<>> THEN df ELSE DropDuplicates(WageSort(df))

\* df.set_index(["Year", "Unit"]): the rows by their index entry
WageIndexed(df) ==
    [key \in {<<df[i].Year, df[i].Unit>> : i \in 1..Len(df)} |->
        df[CHOOSE i \in 1..Len(df) : <<df[i].Year, df[i].Unit>> = key]]

\* df.set_index(["Year", "Unit"]).reindex(full_index).reset_index() and
\* the choice of the output columns
WageReindex(df, full_index) ==
    LET table(grid) ==
            SubSeq([k \in 1..Len(grid) |->
                      [Unit |-> grid[k][1][2], Year |-> grid[k][1][1],
                       n |-> grid[k][2].n, avg |-> grid[k][2].avg,
                       med |-> grid[k][2].med]],
                   1, Len(grid))
    IN table(Reindex(WageIndexed(df), full_index,
                     [n |-> NoNumber, avg |-> NoNumber, med |-> NoNumber]))

\* the rows of internship_salary_week3.csv
WageOutput ==
    FinalSort(WageReindex(WageDedupe(rows),
                          from_product(years_in_folder, unit_order)))

\* the code after the loop: dedupe, grid, sort, to_csv
WageAssemble ==
    /\ script = "wage" /\ phase = "reading"
    /\ nxt = 0 /\ fi = Len(files)
    /\ out' = WageOutput
    /\ phase' = "done"
    /\ UNCHANGED <<script, chars, unit_lookup, arg, ret, extracted, files,
                   fi, nxt, page_index, npages, current_unit, rows, faults,
                   parser, extractor>>

-----------------------------------------------------------------------------
(* employment search: the pages *)

\* a page that opens the section of a unit, without the employment-search
\* section
EP_TITLE_EDUC ==
    << <<"College", " ", "of", " ", "Education">>,
       <<"Graduation", " ", "Survey", " ", "Report">> >>

\* a page with the section and no unit
EP_SEARCH_45 ==
    << <<"Employment", " ", "Search">>,
       <<"Other", " ", "45", "%">> >>

\* another one, with a greater value for the same method
EP_SEARCH_50 ==
    << <<"Employment", " ", "Search">>,
       <<"Other">>,
       <<"50", "%">> >>

\* a page that names a unit and holds the section
EP_SPHL_SEARCH ==
    << <<"School", " ", "of", " ", "Public", " ", "Health">>,
       <<"Employment", " ", "Search">>,
       <<"Other", " ", "<", "1", "%">>,
       <<"Other", " ", "0", "%">> >>

EmpPages == <<EP_TITLE_EDUC, EP_SEARCH_45, EP_SEARCH_50, EP_SPHL_SEARCH>>

\* what the page loop computes from the text of one page
EmpExtract(page_text) ==
    [unit |-> extract_unit_candidate_emp(page_text),
     section |-> page_has_employment_search(page_text),
     best |-> BestForMethod(parse_ep_from_text(page_text), 1, <<>>)]

-----------------------------------------------------------------------------
(* employment search: the main loop *)

\* file.endswith(".pdf")
IsPdf(fname) ==
    Len(fname) >= 2 /\ fname[Len(fname)] = "pdf" /\ fname[Len(fname) - 1] = "."

\* for file in os.listdir(reports): the next file; one that is no .pdf is
\* passed over, any other is opened and current_unit starts as None
EmpNextFile ==
    /\ script = "employment" /\ phase = "reading"
    /\ nxt = 0 /\ fi < Len(files)
    /\ fi' = fi + 1
    /\ \E p \in PageChoices(Len(EmpPages)) :
          nxt' = IF IsPdf(FileNames[files[fi + 1]]) THEN p ELSE 0
    /\ npages' = IF nxt' = 0 THEN npages ELSE npages + 1
    /\ page_index' = 0
    /\ current_unit' =
          IF IsPdf(FileNames[files[fi + 1]]) THEN None ELSE current_unit
    /\ UNCHANGED <<script, chars, unit_lookup, arg, ret, extracted, files,
                   rows, phase, out, faults, parser, extractor>>

\* current_unit after the first statement of the page loop on a page
EmpCurrentUnit(page) ==
    IF Truthy(page.unit) /\ ~page.section THEN page.unit ELSE current_unit

\* the rows the page loop appends for a page
EmpPageRows(page, unit) ==
    IF Truthy(unit) /\ page.section
    THEN SubSeq([k \in 1..Len(page.best) |->
                   [pdf |-> files[fi], Unit |-> unit,
                    method |-> page.best[k].method,
                    Method |-> page.best[k].Method,
                    percent |-> page.best[k].percent]],
                1, Len(page.best))
    ELSE <<>>

\* the body of "for page in pdf.pages" for the page nxt
EmpPage ==
    /\ script = "employment" /\ phase = "reading"
    /\ nxt # 0
    /\ \E la \in PageChoices(Len(EmpPages)) : nxt' = la
    /\ current_unit' = EmpCurrentUnit(extracted[nxt])
    /\ rows' = rows \o EmpPageRows(extracted[nxt],
                                   EmpCurrentUnit(extracted[nxt]))
    /\ npages' = IF nxt' = 0 THEN npages ELSE npages + 1
    /\ page_index' = page_index + 1
    /\ UNCHANGED <<script, chars, unit_lookup, arg, ret, extracted, files,
                   fi, phase, out, faults, parser, extractor>>


\* pdfplumber.open raises for the next .pdf file: nothing catches it and
\* the script ends before any output is written
EmpOpenFault ==
    /\ script = "employment" /\ phase = "reading"
    /\ nxt = 0 /\ fi < Len(files)
    /\ Len(faults) < MaxFaults
    /\ IsPdf(FileNames[files[fi + 1]])
    /\ fi' = fi + 1
    /\ faults' = Append(faults, [at |-> "open", doc |-> fi + 1, page |-> 0])
    /\ phase' = "aborted"
    /\ UNCHANGED <<script, chars, unit_lookup, arg, ret, extracted, files,
                   nxt, page_index, npages, current_unit, rows, out, parser,
                   extractor>>

\* page.extract_text() raises for the page nxt: nothing catches it
EmpPageFault ==
    /\ script = "employment" /\ phase = "reading"
    /\ nxt # 0
    /\ Len(faults) < MaxFaults
    /\ faults' = Append(faults,
                        [at |-> "page", doc |-> fi, page |-> page_index + 1])
    /\ phase' = "aborted"
    /\ UNCHANGED <<script, chars, unit_lookup, arg, ret, extracted, files,
                   fi, nxt, page_index, npages, current_unit, rows, out,
                   parser, extractor>>

-----------------------------------------------------------------------------
(* employment search: the output *)

\* a missing cell: pd.NA, NaN
NA == None

\* the frame after the columns Year and Unit are computed
EmpFrame(rws) ==
    SubSeq([i \in 1..Len(rws) |->
              [Unit |-> canonicalize_unit_emp(rws[i].Unit),
               Year |-> infer_year_from_filename_emp(FileNames[rws[i].pdf]),
               Method |-> rws[i].Method,
               percent |-> rws[i].percent]],
           1, Len(rws))

\* the index of pivot_table(index=["Unit", "Year"]): the pairs of the rows
\* whose keys are not missing
PivotKeys(df) ==
    {<<df[i].Unit, df[i].Year>> : i \in {j \in 1..Len(df) : df[j].Year # NoYear}}

\* aggfunc="first" for one cell: the value of the first row of the group
\* in which it is not missing
PivotFirst(df, key, InColumn(_), Value(_), missing) ==
    LET first(hits) ==
            IF hits = {} THEN missing ELSE Value(df[MinOf(hits)])
    IN first({i \in 1..Len(df) :
                /\ <<df[i].Unit, df[i].Year>> = key
                /\ InColumn(df[i])
                /\ Value(df[i]) # missing})

\* df.pivot_table(index=["Unit", "Year"], columns="Method",
\* values="percent", aggfunc="first") with the missing method columns
\* added: the cells of each (Unit, Year) of the index
EmpPivot(df) ==
    [key \in PivotKeys(df) |->
        [m \in {method_columns[k] : k \in 1..Len(method_columns)} |->
            PivotFirst(df, key, LAMBDA r : r.Method = m,
                       LAMBDA r : r.percent, NA)]]

\* sorted(df["Year"].dropna().astype(int).unique())
AllYears(df) == SortedInts({df[i].Year : i \in 1..Len(df)} \ {NoYear})

\* the rows of employment_search_week2.csv before the final sort
EmpGrid(df) ==
    LET table(grid) ==
            SubSeq([k \in 1..Len(grid) |->
                      [Unit |-> grid[k][1][1], Year |-> grid[k][1][2],
                       cells |-> grid[k][2]]],
                   1, Len(grid))
    IN table(Reindex(EmpPivot(df), from_product(unit_order, AllYears(df)),
                     [m \in {method_columns[k] : k \in 1..Len(method_columns)}
                        |-> NA]))

\* the code after the loop: DataFrame, pivot, grid, sort, to_csv.
\* df["pdf"] raises KeyError when no row was collected; when no row has a
\* year the pivot is taken over an empty grouping, which either yields an
\* empty table or raises
EmpAssemble ==
    /\ script = "employment" /\ phase = "reading"
    /\ nxt = 0 /\ fi = Len(files)
    /\ \/ /\ rows = <<>>
          /\ phase' = "crashed"
          /\ out' = <<>>
       \/ /\ rows # <<>>
          /\ AllYears(EmpFrame(rows)) = <<>>
          /\ phase' \in {"crashed", "done"}
          /\ out' = <<>>
       \/ /\ rows # <<>>
          /\ AllYears(EmpFrame(rows)) # <<>>
          /\ phase' = "done"
          /\ out' = FinalSort(EmpGrid(EmpFrame(rows)))
    /\ UNCHANGED <<script, chars, unit_lookup, arg, ret, extracted, files,
                   fi, nxt, page_index, npages, current_unit, rows, faults,
                   parser, extractor>>

-----------------------------------------------------------------------------
(* graduate outcomes: the pages *)

\* a page with the title of a unit and its outcomes table
OP_EDUC ==
    [text |-> << <<"College", " ", "of", " ", "Education">>,
                <<"Employed", " ", "FT", " ", "10", " ", "50", "%">>,
                <<"Unplaced", " ", "5", " ", "25", "%">>,
                <<"Unresolved", " ", "5", " ", "25", "%">> >>,
     tables |-> << << <<<<"Employed", " ", "FT">>, <<"10">>, <<"50", "%">>>>,
                     <<<<"Unplaced">>, <<"5">>, <<"25", "%">>>>,
                     <<<<"Unresolved">>, <<"5">>, <<"25", "%">>>> >> >>]

\* a page on which a table goes on, with no title line
OP_CONTINUED ==
    [text |-> << <<"Employed", " ", "PT", " ", "3", " ", "15", "%">>,
                <<"Unplaced", " ", "4", " ", "<", "1", "%">>,
                <<"Unresolved", " ", "2", " ", "10", "%">> >>,
     tables |-> << << <<<<"Employed", " ", "PT">>, <<"3">>, <<"15", "%">>>>,
                     <<<<"Unplaced">>, <<"4">>, <<"<", "1", "%">>>>,
                     <<<<"Unresolved">>, <<"2">>, <<"10", "%">>>> >> >>]

\* a page whose title is no unit of the list
OP_SUMMARY ==
    [text |-> << <<"Class", " ", "Summary">>,
                <<"Employed", " ", "FT", " ", "8", " ", "40", "%">>,
                <<"Unplaced", " ", "6", " ", "30", "%">>,
                <<"Unresolved", " ", "6">>,
                <<"30", "%">>,
                <<"TOTAL", " ", "20">> >>,
     tables |-> << << <<<<"Employed", " ", "FT">>, <<"8">>, <<"40", "%">>>>,
                     <<<<"Unplaced">>, <<"6">>, <<"30", "%">>>>,
                     <<<<"Unresolved">>, <<"6">>, <<"30", "%">>>> >> >>]

\* a page that names a unit and holds no table
OP_TEXT_SPHL ==
    [text |-> << <<"School", " ", "of", " ", "Public", " ", "Health">>,
                <<"Graduation", " ", "Survey", " ", "Report">> >>,
     tables |-> <<>>]

\* a page with the title of a unit and an outcomes table that has no row
\* of the unresolved
OP_PLCY_NO_UNRESOLVED ==
    [text |-> << <<"School", " ", "of", " ", "Public", " ", "Policy">>,
                <<"Employed", " ", "FT", " ", "10", " ", "50", "%">>,
                <<"Employed", " ", "PT", " ", "3", " ", "15", "%">>,
                <<"Unplaced", " ", "5", " ", "25", "%">> >>,
     tables |-> << << <<<<"Employed", " ", "FT">>, <<"10">>, <<"50", "%">>>>,
                     <<<<"Employed", " ", "PT">>, <<"3">>, <<"15", "%">>>>,
                     <<<<"Unplaced">>, <<"5">>, <<"25", "%">>>> >> >>]

OutPages ==
    <<OP_EDUC, OP_CONTINUED, OP_SUMMARY, OP_TEXT_SPHL, OP_PLCY_NO_UNRESOLVED>>

\* the tables of a page that are outcomes tables, in the order of the page
Candidates(tables) ==
    SelectSeq(tables, LAMBDA t : t # <<>> /\ is_outcomes_table(t).check)

\* the last of the candidates of the greatest score
LastOfBest(candidates) ==
    candidates[CHOOSE i \in 1..Len(candidates) :
       /\ \A j \in 1..Len(candidates) :
             is_outcomes_table(candidates[j]).score
                <= is_outcomes_table(candidates[i]).score
       /\ \A j \in (i + 1)..Len(candidates) :
             is_outcomes_table(candidates[j]).score
                < is_outcomes_table(candidates[i]).score]

\* candidates.sort(key=lambda x: x[0], reverse=True); candidates[0][1]: the
\* sort is stable, so the first of the candidates of the greatest score
BestCandidate(candidates) ==
    candidates[CHOOSE i \in 1..Len(candidates) :
       /\ \A j \in 1..Len(candidates) :
             is_outcomes_table(candidates[j]).score
                <= is_outcomes_table(candidates[i]).score
       /\ \A j \in 1..(i - 1) :
             is_outcomes_table(candidates[j]).score
                < is_outcomes_table(candidates[i]).score]

\* the rows of one page that has tables: the parse of the best outcomes
\* table, then TOTAL and Not Seeking from the page text where the parse
\* lacks them; nothing when no table is an outcomes table
PageItems(page) ==
    LET extras(parsed, found) ==
            parsed \o SelectSeq(found, LAMBDA x :
                \A k \in 1..Len(parsed) :
                   LowerStr(parsed[k].outcome) # LowerStr(x.outcome))
        items(candidates) ==
            IF candidates = <<>> THEN <<>>
            ELSE extras(parse_outcomes_table(BestCandidate(candidates)),
                        get_total_and_not_seeking(PageText(page.text)))
    IN items(Candidates(page.tables))

\* the three steps that give df["Unit"] from a page title: normalize_unit,
\* the cleanup of the string, canonicalize_unit
UnitColumn(title) ==
    canonicalize_unit_out(FixDashes(CollapseWs(Strip(
        normalize_unit_out(title)))))

\* what the script computes from one page: whether it has tables, its
\* title and the Unit the title becomes, its items and the Outcome each
\* label becomes
OutExtract(page) ==
    LET keyed(items) ==
            SubSeq([k \in 1..Len(items) |->
                      [outcome |-> items[k].outcome,
                       count |-> items[k].count,
                       percent |-> items[k].percent,
                       Outcome |-> outcome_key(items[k].outcome)]],
                   1, Len(items))
        titled(title) ==
            [tables |-> page.tables # <<>>,
             title |-> title,
             Unit |-> UnitColumn(title),
             items |-> IF page.tables # <<>>
                       THEN keyed(PageItems(page)) ELSE <<>>]
    IN titled(get_page_title(page.text))

-----------------------------------------------------------------------------
(* graduate outcomes: the main loop *)

\* for file in os.listdir(reports): the next file; one that is no .pdf is
\* passed over
OutNextFile ==
    /\ script = "outcomes" /\ phase = "reading"
    /\ nxt = 0 /\ fi < Len(files)
    /\ fi' = fi + 1
    /\ \E p \in PageChoices(Len(OutPages)) :
          nxt' = IF IsPdf(FileNames[files[fi + 1]]) THEN p ELSE 0
    /\ npages' = IF nxt' = 0 THEN npages ELSE npages + 1
    /\ page_index' = 0
    /\ UNCHANGED <<script, chars, unit_lookup, arg, ret, extracted, files,
                   current_unit, rows, phase, out, faults, parser, extractor>>

\* the rows the page loop appends for a page
OutPageRows(page) ==
    SubSeq([k \in 1..Len(page.items) |->
              [pdf |-> files[fi], title |-> page.title,
               outcome |-> page.items[k].outcome,
               count |-> page.items[k].count,
               percent |-> page.items[k].percent]],
           1, Len(page.items))

\* the body of "for page in pdf.pages" for the page nxt: a page without
\* tables, or without an outcomes table, adds nothing
OutPage ==
    /\ script = "outcomes" /\ phase = "reading"
    /\ nxt # 0
    /\ \E la \in PageChoices(Len(OutPages)) : nxt' = la
    /\ rows' = rows \o OutPageRows(extracted[nxt])
    /\ npages' = IF nxt' = 0 THEN npages ELSE npages + 1
    /\ page_index' = page_index + 1
    /\ UNCHANGED <<script, chars, unit_lookup, arg, ret, extracted, files,
                   fi, current_unit, phase, out, faults, parser, extractor>>


\* pdfplumber.open raises for the next .pdf file: nothing catches it and
\* the script ends before any output is written
OutOpenFault ==
    /\ script = "outcomes" /\ phase = "reading"
    /\ nxt = 0 /\ fi < Len(files)
    /\ Len(faults) < MaxFaults
    /\ IsPdf(FileNames[files[fi + 1]])
    /\ fi' = fi + 1
    /\ faults' = Append(faults, [at |-> "open", doc |-> fi + 1, page |-> 0])
    /\ phase' = "aborted"
    /\ UNCHANGED <<script, chars, unit_lookup, arg, ret, extracted, files,
                   nxt, page_index, npages, current_unit, rows, out, parser,
                   extractor>>

\* page.extract_tables() or the page.extract_text() of get_page_title
\* raises for the page nxt: nothing catches it
OutPageFault ==
    /\ script = "outcomes" /\ phase = "reading"
    /\ nxt # 0
    /\ Len(faults) < MaxFaults
    /\ faults' = Append(faults,
                        [at |-> "page", doc |-> fi, page |-> page_index + 1])
    /\ phase' = "aborted"
    /\ UNCHANGED <<script, chars, unit_lookup, arg, ret, extracted, files,
                   fi, nxt, page_index, npages, current_unit, rows, out,
                   parser, extractor>>

-----------------------------------------------------------------------------
(* graduate outcomes: the output *)

\* df["Unit"] for a row: UnitColumn of its title, as computed for the page
\* of the catalogue that has this title
UnitOfTitle(title) ==
    extracted[CHOOSE p \in 1..Len(extracted) :
                 extracted[p].title = title].Unit

\* df["Outcome"] for a row: outcome_key of its label, as computed for the
\* item of the catalogue that has this label
OutcomeOfLabel(label) ==
    LET at(hit) == extracted[hit[1]].items[hit[2]].Outcome
    IN at(CHOOSE hit \in UNION {{<<p, k>> : k \in 1..Len(extracted[p].items)} :
                                   p \in 1..Len(extracted)} :
             extracted[hit[1]].items[hit[2]].outcome = label)

\* the frame before the pivots: Year, Unit, count, percent and Outcome of
\* the rows whose outcome has a key
OutFrame(rws) ==
    SelectSeq(SubSeq([i \in 1..Len(rws) |->
                        [Unit |-> UnitOfTitle(rws[i].title),
                         Year |-> ExtractYear(FileNames[rws[i].pdf]),
                         count |-> to_int(rws[i].count),
                         percent |-> NoSpaces(rws[i].percent),
                         Outcome |-> OutcomeOfLabel(rws[i].outcome)]],
                     1, Len(rws)),
              LAMBDA r : r.Outcome # NoOutcome)

\* the outcomes col_order keeps with a count and with a percent
COUNT_OUTCOMES ==
    <<O_EMPLOYED_FT, O_EMPLOYED_PT, O_CONTINUING, O_VOLUNTEERING, O_MILITARY,
      O_BUSINESS, O_UNPLACED, O_UNRESOLVED, O_TOTAL, O_NOT_SEEKING>>
PERCENT_OUTCOMES ==
    <<O_EMPLOYED_FT, O_EMPLOYED_PT, O_CONTINUING, O_VOLUNTEERING, O_MILITARY,
      O_BUSINESS, O_UNPLACED, O_UNRESOLVED>>

\* the columns of the pivot of counts (a column without a value is dropped)
\* and of the pivot of percents
CountColumns(df) ==
    {df[i].Outcome : i \in {j \in 1..Len(df) :
                               df[j].Year # NoYear /\ df[j].count # NoNumber}}
PercentColumns(df) ==
    {df[i].Outcome : i \in {j \in 1..Len(df) : df[j].Year # NoYear}}

\* .round(1) of a value in hundredths, in tenths
RoundTenths(h) ==
    IF h % 10 < 5 THEN h \div 10
    ELSE IF h % 10 > 5 THEN h \div 10 + 1
    ELSE IF (h \div 10) % 2 = 0 THEN h \div 10
    ELSE h \div 10 + 1

\* (100 - unplaced - unresolved).round(1).astype(str) + "%"
PlacementRate(unplaced, unresolved) ==
    IF unplaced = NaN \/ unresolved = NaN
    THEN [kind |-> "nan%", tenths |-> 0]
    ELSE [kind |-> "value", tenths |-> RoundTenths(10000 - unplaced - unresolved)]

\* the table out before the grid: the two pivots side by side, the
\* placement rate when both of its columns exist, the columns of col_order
OutWide(df) ==
    LET percent(key, o) ==
            PivotFirst(df, key, LAMBDA r : r.Outcome = o,
                       LAMBDA r : r.percent, NA)
        wide(ncols, pcols) ==
            [key \in PivotKeys(df) |->
               [N |-> [o \in ncols |->
                         PivotFirst(df, key, LAMBDA r : r.Outcome = o,
                                    LAMBDA r : r.count, NoNumber)],
                P |-> [o \in pcols |-> percent(key, o)],
                rate |->
                   IF {O_UNPLACED, O_UNRESOLVED} \subseteq pcols
                   THEN PlacementRate(
                           pct_to_float(percent(key, O_UNPLACED)),
                           pct_to_float(percent(key, O_UNRESOLVED)))
                   ELSE [kind |-> "no column", tenths |-> 0]]]
    IN wide(CountColumns(df) \cap Range(COUNT_OUTCOMES),
            PercentColumns(df) \cap Range(PERCENT_OUTCOMES))

\* a row of the grid that out has no entry for
OutBlank(df) ==
    [N |-> [o \in CountColumns(df) \cap Range(COUNT_OUTCOMES) |-> NoNumber],
     P |-> [o \in PercentColumns(df) \cap Range(PERCENT_OUTCOMES) |-> NA],
     rate |-> IF {O_UNPLACED, O_UNRESOLVED} \subseteq PercentColumns(df)
              THEN [kind |-> "missing", tenths |-> 0]
              ELSE [kind |-> "no column", tenths |-> 0]]

\* the rows of outcome_week1.csv before the final sort
OutGrid(df) ==
    LET table(grid) ==
            SubSeq([k \in 1..Len(grid) |->
                      [Unit |-> grid[k][1][1], Year |-> grid[k][1][2],
                       cells |-> grid[k][2]]],
                   1, Len(grid))
    IN table(Reindex(OutWide(df), from_product(unit_order, AllYears(df)),
                     OutBlank(df)))

\* the code after the loop.  df["pdf"] raises KeyError when no row was
\* collected; when no row with an outcome has a year the pivots are taken
\* over an empty grouping, which either yields an empty table or raises
OutAssemble ==
    /\ script = "outcomes" /\ phase = "reading"
    /\ nxt = 0 /\ fi = Len(files)
    /\ \/ /\ rows = <<>>
          /\ phase' = "crashed"
          /\ out' = <<>>
       \/ /\ rows # <<>>
          /\ AllYears(OutFrame(rows)) = <<>>
          /\ phase' \in {"crashed", "done"}
          /\ out' = <<>>
       \/ /\ rows # <<>>
          /\ AllYears(OutFrame(rows)) # <<>>
          /\ phase' = "done"
          /\ out' = FinalSort(OutGrid(OutFrame(rows)))
    /\ UNCHANGED <<script, chars, unit_lookup, arg, ret, extracted, files,
                   fi, nxt, page_index, npages, current_unit, rows, faults,
                   parser, extractor>>

-----------------------------------------------------------------------------
(* The runs *)

Scripts == {"wage", "employment", "outcomes"}

\* what os.listdir can return: up to MaxDocs distinct files in any order
FolderListings ==
    UNION {{q \in [1..k -> FileIds] :
               \A i, j \in 1..k : i < j => q[i] # q[j]} : k \in 0..MaxDocs}

\* the order in which a script iterates the folder: sorted() in the wage
\* script, the order of os.listdir in the others
FileLists(s) ==
    IF s = "wage"
    THEN {q \in FolderListings : \A i, j \in 1..Len(q) : i < j => q[i] < q[j]}
    ELSE FolderListings

\* the pages the documents of a script are made of
Catalogue(s) ==
    CASE s = "wage" -> WagePages
      [] s = "employment" -> EmpPages
      [] s = "outcomes" -> OutPages
      [] OTHER -> <<>>

\* what the script computes from each page of its catalogue
Extract(s, raw) ==
    CASE s = "wage" -> WageExtract(raw)
      [] s = "employment" -> EmpExtract(raw)
      [] s = "outcomes" -> OutExtract(raw)
      [] OTHER -> raw

Init ==
    /\ script \in Scripts
    /\ chars = CharTables
    /\ unit_lookup = UnitLookup(script)
    /\ arg = <<>>
    /\ ret = <<>>
    /\ extracted = <<>>
    /\ files = <<>>
    /\ fi = 0
    /\ nxt = 0
    /\ page_index = 0
    /\ npages = 0
    /\ current_unit = None
    /\ rows = <<>>
    /\ phase = "start"
    /\ out = <<>>
    /\ faults = <<>>
    /\ parser = NoParser
    /\ extractor = NoExtractor

\* the script lists the report folder; the catalogue of pages its documents
\* are made of is fixed with it, and with it what the page functions return
\* on each of them
ListFolder ==
    /\ phase = "start"
    /\ files' \in FileLists(script)
    /\ extracted' = SubSeq([p \in 1..Len(Catalogue(script)) |->
                              Extract(script, Catalogue(script)[p])],
                           1, Len(Catalogue(script)))
    /\ phase' = "reading"
    /\ UNCHANGED <<script, chars, unit_lookup, arg, ret, fi, nxt,
                   page_index, npages, current_unit, rows, out, faults,
                   parser, extractor>>

NextWage ==
    \/ ListFolder
    \/ WageNextFile \/ WagePage \/ WageAssemble
    \/ WageOpenFault \/ WagePageFault \/ WageLookaheadFault

NextEmp ==
    \/ ListFolder
    \/ EmpNextFile \/ EmpPage \/ EmpAssemble
    \/ EmpOpenFault \/ EmpPageFault

NextOut ==
    \/ ListFolder
    \/ OutNextFile \/ OutPage \/ OutAssemble
    \/ OutOpenFault \/ OutPageFault

Next ==
    \/ ListFolder
    \/ WageNextFile \/ WagePage \/ WageAssemble
    \/ WageOpenFault \/ WagePageFault \/ WageLookaheadFault
    \/ EmpNextFile \/ EmpPage \/ EmpAssemble
    \/ EmpOpenFault \/ EmpPageFault
    \/ OutNextFile \/ OutPage \/ OutAssemble
    \/ OutOpenFault \/ OutPageFault

\* the runs of any of the scripts
Spec == Init /\ [][Next]_vars

\* the runs of the internship wage script
InitWage == Init /\ script = "wage"
SpecWage == InitWage /\ [][NextWage]_vars

\* the runs of the graduate outcomes script
InitOut == Init /\ script = "outcomes"
SpecOut == InitOut /\ [][NextOut]_vars

\* the runs of the employment search script
InitEmp == Init /\ script = "employment"
SpecEmp == InitEmp /\ [][NextEmp]_vars

-----------------------------------------------------------------------------
(* Functions called on their own: arg is [f |-> the function, x |-> its   *)
(* argument] (text for a page text), ret what it returned                 *)

\* the most tokens of a string drawn as an argument
MaxArgLen == 4

\* the strings of at most MaxArgLen tokens over the alphabet A; the tokens
\* of a string are maximal runs, so no two of the tokens Runs (the digit
\* runs, or the words, of A) are adjacent
StringsOver(A, Runs) ==
    UNION {{s \in [1..n -> A] :
               \A i \in 1..(n - 1) : ~(s[i] \in Runs /\ s[i + 1] \in Runs)} :
           n \in 0..MaxArgLen}

\* the arguments pct_to_num and pct_to_float are called with
PercentStrings == StringsOver({"<", "0", "1", "3", "45", ".", "%", " "},
                              {"0", "1", "3", "45"})

\* the names the alias tables of the scripts know, with the unit of each
KnownVariants == {unit_aliases_emp[i] : i \in 1..Len(unit_aliases_emp)}

\* the arguments canonicalize_unit is called with: the units of the
\* enumeration, the known variants, and strings that name no unit
UnitStrings ==
    UnitSet \cup {v[1] : v \in KnownVariants}
    \cup StringsOver({"Class", "Summary", " ", EN_DASH}, {"Class", "Summary"})

\* the most lines of a page text drawn as an argument
MaxTextLines == 5

\* the most label/value pairs of an alternating page drawn as an argument
MaxPairs == 2

\* the lines the page texts given to parse_ep_from_text are made of: a
\* section heading, labels (one a stop marker, one padded and in capitals,
\* one the phrase that empties the page, one with the heading phrase in
\* it), percent-only lines (one padded, with a space before the sign) and
\* a line with its value inline
EP_HEADING == <<"Employment", " ", "Search">>
EP_LABELS ==
    {<<"Other">>, <<" ", "OTHER", " ">>, <<"Career", " ", "Fair">>,
     <<"Salary">>, <<"Too", " ", "few", " ", "responses">>,
     <<"Online", " ", "employment", " ", "search">>}
EP_VALUES == {<<"45", "%">>, <<" ", "50", " ", "%", " ">>}
EP_INLINE == <<"Referral", " ", "3", "%">>
EpLines == {EP_HEADING, EP_INLINE, <<"Other">>, <<"Salary">>, <<"45", "%">>}

\* the page texts of at most MaxTextLines lines
EpTexts == UNION {[1..n -> EpLines] : n \in 0..MaxTextLines}

\* the pages made of the heading and then at most MaxPairs times a label
\* line and a percent-only line
RECURSIVE AlternatingPages(_)
AlternatingPages(n) ==
    IF n = 0 THEN {<<EP_HEADING>>}
    ELSE {p \o <<l, v>> : p \in AlternatingPages(n - 1),
                          l \in EP_LABELS, v \in EP_VALUES}

\* the arguments parse_ep_from_text is called with
EpPageTexts ==
    EpTexts \cup UNION {AlternatingPages(n) : n \in 0..MaxPairs}

\* the most rows of a table drawn as an argument, before any padding
MaxTableRows == 4

\* the most tables of a page drawn as an argument
MaxTables == 3

\* the rows the tables given to is_outcomes_table are made of: a row with a
\* label, a count and a percent (and an empty cell first), one whose label
\* holds no keyword, one whose percent sign is a cell of its own, one with
\* a keyword label and no percent, and a row with no cells
ROW_EMPLOYED ==
    <<None, <<"Employed", " ", "FT">>, <<"10">>, <<"50", "%">>>>
ROW_OTHER == <<<<"Other">>, <<"1", ",", "200">>, <<"25", "%">>>>
ROW_UNRESOLVED == <<<<"Unresolved">>, <<"2">>, <<"10">>, <<"%">>>>
ROW_UNPLACED_NO_PERCENT == <<<<"Unplaced">>, <<"3">>>>
ROW_EMPTY == <<>>
TableRows ==
    {ROW_EMPLOYED, ROW_OTHER, ROW_UNRESOLVED, ROW_UNPLACED_NO_PERCENT,
     ROW_EMPTY}

\* more rows for parse_outcomes_table: the second line of a wrapped label,
\* a count and a percent with no label, the total and the graduates not
\* seeking (a count, no percent), a label with a percent and no count, and
\* the header of the table
ROW_FULL_TIME == <<<<"Full", "-", "Time">>>>
ROW_NO_LABEL == <<None, <<"10">>, <<"50", "%">>>>
ROW_TOTAL == <<<<"TOTAL">>, <<"120">>>>
ROW_NOT_SEEKING == <<<<"Not", " ", "Seeking">>, <<"7">>>>
ROW_PERCENT_ONLY == <<<<"Unplaced">>, <<"5", "%">>>>
ROW_HEADER == <<<<"Outcome">>, <<"#">>, <<"%">>>>
ParsedRows ==
    {ROW_EMPLOYED, ROW_UNPLACED_NO_PERCENT, ROW_EMPTY, ROW_FULL_TIME,
     ROW_NO_LABEL, ROW_TOTAL, ROW_NOT_SEEKING, ROW_PERCENT_ONLY, ROW_HEADER}

\* the tables parse_outcomes_table is called with
ParsedTables == UNION {[1..n -> ParsedRows] : n \in 0..MaxTableRows}

\* the tables of at most MaxTableRows rows
ShortTables == UNION {[1..n -> TableRows] : n \in 0..MaxTableRows}

\* n rows with no cells
Padding(n) == [k \in 1..n |-> ROW_EMPTY]

\* the arguments is_outcomes_table is called with: the short tables, and
\* the short tables after 12 to 14 rows with no cells, so that their rows
\* stand on both sides of the 15th
OutcomeTables ==
    ShortTables \cup {Padding(n) \o t : n \in 12..14, t \in ShortTables}

\* the tables the pages are made of: two outcomes tables of score 3, one of
\* score 4, a table of score 5 with no keyword label, and an empty table
TB_A == <<ROW_EMPLOYED, ROW_OTHER, ROW_UNRESOLVED>>
TB_B == <<ROW_OTHER, ROW_UNPLACED_NO_PERCENT, ROW_OTHER, ROW_EMPLOYED>>
TB_C == <<ROW_EMPLOYED, ROW_OTHER, ROW_OTHER, ROW_UNRESOLVED>>
TB_NO_KEYWORD == <<ROW_OTHER, ROW_OTHER, ROW_OTHER, ROW_OTHER, ROW_OTHER>>
TB_EMPTY == <<>>
PageTables == {TB_A, TB_B, TB_C, TB_NO_KEYWORD, TB_EMPTY}

\* page.extract_tables() of the pages drawn: at most MaxTables tables
TableLists == UNION {[1..n -> PageTables] : n \in 0..MaxTables}

\* the amounts of the sentences given to parse_metrics: two plausible
\* hourly wages, and two that are not below 100
AMOUNT_18_50 == <<"18", ".", "50">>
AMOUNT_17_00 == <<"17", ".", "00">>
AMOUNT_250 == <<"250">>
AMOUNT_100 == <<"100">>
AMOUNT_0 == <<"0">>
Amounts == {AMOUNT_18_50, AMOUNT_17_00, AMOUNT_250, AMOUNT_100, AMOUNT_0}

\* "Of the 120 internship experiences that included an hourly wage, the
\* <first> was $<a> and the <second> was $<b>"
WageSentence(first, a, second, b) ==
    <<"Of", " ", "the", " ", "120", " ", "internship", " ", "experiences",
      " ", "that", " ", "included", " ", "an", " ", "hourly", " ", "wage",
      ",", " ", "the", " ", first, " ", "was", " ", "$">> \o a
    \o <<" ", "and", " ", "the", " ", second, " ", "was", " ", "$">> \o b

\* the sentence cut in two by "is below. Pay was" after the first word
\* (k = 1) or after the second (k = 2), or by ". " before the second (k = 0)
WageSplit(first, a, second, b, k) ==
    <<"Of", " ", "the", " ", "120", " ", "internship", " ", "experiences",
      " ", "that", " ", "included", " ", "an", " ", "hourly", " ", "wage",
      ",", " ", "the", " ", first, " ">>
    \o (IF k = 1 THEN <<"is", " ", "below", ".", " ", "Pay", " ">> ELSE <<>>)
    \o <<"was", " ", "$">> \o a
    \o (IF k = 0 THEN <<".", " ", "The">>  ELSE <<" ", "and", " ", "the">>)
    \o <<" ", second, " ">>
    \o (IF k = 2 THEN <<"is", " ", "below", ".", " ", "Pay", " ">> ELSE <<>>)
    \o <<"was", " ", "$">> \o b

\* "One experience paid an hourly wage and the average and median was
\* $<a> per hour"
OneWageSentence(a) ==
    <<"One", " ", "experience", " ", "paid", " ", "an", " ", "hourly", " ",
      "wage", " ", "and", " ", "the", " ", "average", " ", "and", " ",
      "median", " ", "was", " ", "$">> \o a \o <<" ", "per", " ", "hour">>

\* "A total of 0 internship experiences were reported."
TOTAL_ZERO_LINE ==
    <<"A", " ", "total", " ", "of", " ", "0", " ", "internship", " ",
      "experiences", " ", "were", " ", "reported", ".">>

\* "A total of 120 internship experiences were reported."
TOTAL_LINE ==
    <<"A", " ", "total", " ", "of", " ", "120", " ", "internship", " ",
      "experiences", " ", "were", " ", "reported", ".">>

\* the page texts parse_metrics is called with: the sentence with the
\* average or the median first and each amount for either, alone or
\* followed by the line with the total
WageTexts ==
    {<<WageSentence(w[1], a, w[2], b)>> \o tail :
        w \in {<<"average", "median">>, <<"median", "average">>},
        a \in Amounts, b \in Amounts, tail \in {<<>>, <<TOTAL_LINE>>}}
    \cup
    {<<WageSplit(w[1], a, w[2], b, k)>> :
        w \in {<<"average", "median">>, <<"median", "average">>},
        a \in {AMOUNT_18_50, AMOUNT_17_00},
        b \in {AMOUNT_18_50, AMOUNT_17_00}, k \in 0..2}
    \cup
    {<<OneWageSentence(a)>> \o tail :
        a \in Amounts, tail \in {<<>>, <<TOTAL_LINE>>, <<TOTAL_ZERO_LINE>>}}

\* file names: nothing, a year or a word in front, then nothing, a range of
\* two years in ascending order or two years that form no range
YearSeq == <<"2018", "2019", "2020">>
YearNames ==
    LET heads == {<<>>, <<"2018", "_">>, <<"report", "_">>}
        ranges == {<<YearSeq[i]>> \o sep \o <<YearSeq[j]>> :
                      i \in 1..3, j \in 1..3, sep \in {<<"-">>, <<" ", "-", " ">>}}
        pairs == {<<YearSeq[i], "_", YearSeq[j]>> : i \in 1..3, j \in 1..3}
        middles == {<<>>} \cup {r \in ranges : IntOf(r[1]) < IntOf(r[Len(r)])}
                          \cup pairs
    IN {h \o m \o <<".", "pdf">> : h \in heads, m \in middles}

\* labels of search methods: one or two of these phrases
MethodPhrases ==
    {<<"Internship">>, <<"Co", "-", "op">>, <<"Coop">>, <<"International">>,
     <<"Career", " ", "Fair">>, <<"career", " ", "fairs">>,
     <<"non", "-", "UMD">>, <<"Non", " ", "UMD">>,
     <<"Off", " ", "Campus">>, <<"off", "-", "campus">>,
     <<"UMD">>, <<"On", " ", "Campus">>, <<"Other">>, <<"Salary">>,
     <<"Handshake">>, <<"Newspaper">>}
MethodLabels ==
    MethodPhrases
    \cup {a \o <<" ">> \o b : a \in MethodPhrases, b \in MethodPhrases}

\* the calls drawn for a script
Calls(s) ==
    {[f |-> "canonicalize_unit", x |-> x] : x \in UnitStrings}
    \cup {[f |-> "infer_year", x |-> x] : x \in YearNames}
    \cup
    CASE s = "employment" ->
            {[f |-> "pct_to_num", x |-> x] : x \in PercentStrings}
            \cup {[f |-> "parse_ep_from_text", text |-> x] : x \in EpPageTexts}
            \cup {[f |-> "method_key", x |-> x] : x \in MethodLabels}
      [] s = "outcomes" ->
            {[f |-> "pct_to_float", x |-> x] : x \in PercentStrings}
            \cup {[f |-> "is_outcomes_table", table |-> t] :
                     t \in OutcomeTables}
            \cup {[f |-> "page", tables |-> ts] : ts \in TableLists}
            \cup {[f |-> "parse_outcomes_table", table |-> t] :
                     t \in ParsedTables}
      [] OTHER -> {[f |-> "parse_metrics", text |-> t] : t \in WageTexts}

\* the script is loaded and one of its functions is about to be called
InitCalls ==
    /\ script \in Scripts
    /\ chars = CharTables
    /\ unit_lookup = UnitLookup(script)
    /\ arg \in Calls(script)
    /\ ret = <<>>
    /\ extracted = <<>>
    /\ files = <<>>
    /\ fi = 0
    /\ nxt = 0
    /\ page_index = 0
    /\ npages = 0
    /\ current_unit = None
    /\ rows = <<>>
    /\ phase = "call"
    /\ out = <<>>
    /\ faults = <<>>
    /\ parser = NoParser
    /\ extractor = NoExtractor

\* the call returns v
Return(v) ==
    /\ ret' = v
    /\ phase' = "returned"
    /\ UNCHANGED <<script, chars, unit_lookup, arg, extracted, files, fi,
                   nxt, page_index, npages, current_unit, rows, out, faults,
                   parser, extractor>>

PctToNumCall ==
    /\ phase = "call" /\ arg.f = "pct_to_num"
    /\ Return(pct_to_num(arg.x))

PctToFloatCall ==
    /\ phase = "call" /\ arg.f = "pct_to_float"
    /\ Return(pct_to_float(arg.x))

ParseEpCall ==
    /\ phase = "call" /\ arg.f = "parse_ep_from_text"
    /\ Return(parse_ep_from_text(arg.text))

ParseMetricsCall ==
    /\ phase = "call" /\ arg.f = "parse_metrics"
    /\ Return(parse_metrics(arg.text))

IsOutcomesTableCall ==
    /\ phase = "call" /\ arg.f = "is_outcomes_table"
    /\ Return(is_outcomes_table(arg.table))

ParseOutcomesCall ==
    /\ phase = "call" /\ arg.f = "parse_outcomes_table"
    /\ Return(parse_outcomes_table(arg.table))

\* one turn of the page loop of the outcomes script on a page with the
\* tables arg.tables and no text: best is the table parsed, if any, items
\* what the page adds to rows
OutTablesCall ==
    /\ phase = "call" /\ arg.f = "page"
    /\ Return([best |-> IF Candidates(arg.tables) = <<>> THEN <<>>
                        ELSE <<BestCandidate(Candidates(arg.tables))>>,
               items |-> PageItems([text |-> <<>>, tables |-> arg.tables])])

\* canonicalize_unit of the script that runs
canonicalize_unit(u) ==
    CASE script = "wage" -> canonicalize_unit_wage(u)
      [] script = "employment" -> canonicalize_unit_emp(u)
      [] OTHER -> canonicalize_unit_out(u)

\* canonicalize_unit called on arg.x, and once more on what it returned
CanonicalizeCall ==
    /\ phase = "call" /\ arg.f = "canonicalize_unit"
    /\ Return([once |-> canonicalize_unit(arg.x),
               twice |-> canonicalize_unit(canonicalize_unit(arg.x))])

\* the year the script that runs gives the rows of a file
FileYear(fname) ==
    CASE script = "wage" -> infer_year_from_filename_wage(fname)
      [] script = "employment" -> infer_year_from_filename_emp(fname)
      [] OTHER -> ExtractYear(fname)

\* the year of the file named arg.x
InferYearCall ==
    /\ phase = "call" /\ arg.f = "infer_year"
    /\ Return(FileYear(arg.x))

\* method_key on the label arg.x, and the items the page loop keeps of a
\* page on which the parser found the one pair (arg.x, "45%")
MethodKeyCall ==
    /\ phase = "call" /\ arg.f = "method_key"
    /\ Return([key |-> method_key(arg.x),
               items |-> BestForMethod(<< <<arg.x, <<"45", "%">>>> >>,
                                       1, <<>>)])

NextCalls ==
    \/ InferYearCall
    \/ MethodKeyCall
    \/ PctToNumCall
    \/ PctToFloatCall
    \/ CanonicalizeCall
    \/ ParseEpCall
    \/ IsOutcomesTableCall
    \/ OutTablesCall
    \/ ParseOutcomesCall
    \/ ParseMetricsCall

\* the calls of single functions
SpecCalls == InitCalls /\ [][NextCalls]_vars

-----------------------------------------------------------------------------
(* parse_ep_from_text, statement by statement *)

\* the most lines a page has after the line with the section phrase
MaxScanLines == 3

\* the lines of those pages: two labels, a value, a value with a space in
\* it, a line with a label and a value, a line with a heading word, a
\* value and a value of no label, a line of heading words, a stop marker,
\* a response-rate disclaimer, the heading once more, and a label in
\* capitals with its value
SL_OTHER == <<"Other">>
SL_CAREER_FAIR == <<"Career", " ", "Fair">>
SL_45 == <<"45", "%">>
SL_50 == <<"50", " ", "%">>
SL_METHOD_9_7 == <<"Method", " ", "9", "%", " ", "-", " ", "7", "%">>
SL_METHOD_USED == <<"Method", " ", "Used">>
SL_SALARY == <<"Salary">>
SL_BASED_ON == <<"Based", " ", "on", " ", "120", " ", "responses">>
SL_OTHER_45 == <<"OTHER", " ", "45", "%">>
ScanLines ==
    {SL_OTHER, SL_CAREER_FAIR, SL_45, SL_50, EP_INLINE, SL_METHOD_9_7,
     SL_METHOD_USED, SL_SALARY, SL_BASED_ON, EP_HEADING, SL_OTHER_45}

\* the pages: the heading and at most MaxScanLines lines, and pages that
\* make the function return at once
ParseTexts ==
    {<<EP_HEADING>> \o q :
        q \in UNION {[1..n -> ScanLines] : n \in 0..MaxScanLines}}
    \cup {<<>>, <<SL_OTHER, SL_45>>,
          <<EP_HEADING, <<"Too", " ", "few", " ", "responses">>>>}

\* parse_ep_from_text is about to be called on a page
InitParse ==
    /\ script = "employment"
    /\ chars = CharTables
    /\ unit_lookup = UnitLookup(script)
    /\ arg \in {[f |-> "parse_ep_from_text", text |-> t] : t \in ParseTexts}
    /\ ret = <<>>
    /\ extracted = <<>>
    /\ files = <<>>
    /\ fi = 0
    /\ nxt = 0
    /\ page_index = 0
    /\ npages = 0
    /\ current_unit = None
    /\ rows = <<>>
    /\ phase = "call"
    /\ out = <<>>
    /\ faults = <<>>
    /\ parser = NoParser
    /\ extractor = NoExtractor

\* "return []" before the loop
ParseEmpty ==
    /\ phase = "call" /\ arg.f = "parse_ep_from_text"
    /\ ParseReturnsEarly(arg.text)
    /\ Return(<<>>)

\* lines, start, "out = []", "pending_label = None", "pending_pct = None":
\* the loop is at the line after the line start
ParseBegin ==
    /\ phase = "call" /\ arg.f = "parse_ep_from_text"
    /\ ~ParseReturnsEarly(arg.text)
    /\ parser' = [lines |-> NonEmptyLines(arg.text),
                  i |-> ParseStart(NonEmptyLines(arg.text)) + 1,
                  out |-> <<>>,
                  pending_label |-> None,
                  pending_pct |-> None]
    /\ phase' = "scan"
    /\ UNCHANGED <<script, chars, unit_lookup, arg, ret, extracted, files, fi,
                   nxt, page_index, npages, current_unit, rows, out, faults,
                   extractor>>

\* the loop has a line to take, and its kind is k
ScanAt(k) ==
    /\ phase = "scan"
    /\ parser.i <= Len(parser.lines)
    /\ LineKind(parser.lines[parser.i]) = k

\* the loop goes on to the next line with the locals of st
ScanOn(st) ==
    /\ parser' = [st EXCEPT !.i = parser.i + 1]
    /\ UNCHANGED <<script, chars, unit_lookup, arg, ret, extracted, files, fi,
                   nxt, page_index, npages, current_unit, rows, phase, out,
                   faults, extractor>>

\* a loop that forgets what is pending on such a line
ParseContinueClears ==
    /\ (ScanAt("continue") \/ ScanAt("none"))
    /\ ScanOn([parser EXCEPT !.pending_label = None, !.pending_pct = None])

\* a line of boilerplate (continue), or one no branch takes
ParseContinue ==
    /\ (ScanAt("continue") \/ ScanAt("none"))
    /\ ScanOn(parser)

ParseValueLine ==
    /\ ScanAt("value")
    /\ ScanOn(ValueLine(parser, parser.lines[parser.i]))

ParseInlineLine ==
    /\ ScanAt("inline")
    /\ ScanOn(InlineLine(parser, parser.lines[parser.i]))

ParseLabelLine ==
    /\ ScanAt("label")
    /\ ScanOn(LabelLine(parser, parser.lines[parser.i]))

\* a line with a stop marker: break, then the removal of the repeated pairs
\* and "return dedup"
ParseBreak ==
    /\ ScanAt("break")
    /\ Return(DedupPairs(parser.out))

\* the lines are exhausted: the removal of the repeated pairs and "return
\* dedup"
ParseReturn ==
    /\ phase = "scan"
    /\ parser.i > Len(parser.lines)
    /\ Return(DedupPairs(parser.out))

NextParse ==
    \/ ParseEmpty \/ ParseBegin
    \/ ParseContinue \/ ParseValueLine \/ ParseInlineLine \/ ParseLabelLine
    \/ ParseBreak \/ ParseReturn

\* the runs of parse_ep_from_text
SpecParse == InitParse /\ [][NextParse]_vars

-----------------------------------------------------------------------------
(* top employers: extract_top_employer, statement by statement *)

\* normalize_line: runs of white space become one space, then strip()
normalize_line(ln) == Strip(CollapseWs(ln))

\* HEADING_RE.search(ln): \bTOP\s+EMPLOYERS\b, in any case
HeadingSearch(ln) ==
    \E i \in 1..Len(ln) :
        /\ Lower(ln[i]) = "top"
        /\ (i = 1 \/ ~IsWordChar(ln[i - 1]))
        /\ SkipWs(ln, i + 1) > i + 1
        /\ SkipWs(ln, i + 1) <= Len(ln)
        /\ Lower(ln[SkipWs(ln, i + 1)]) = "employers"
        /\ (SkipWs(ln, i + 1) = Len(ln)
            \/ ~IsWordChar(ln[SkipWs(ln, i + 1) + 1]))

\* the alternatives of STOP_RE, on a line whose white space is single
\* spaces
STOP_SECTIONS ==
    <<<<"geographic", " ", "distribution">>, <<"top", " ", "10">>,
      <<"continuing", " ", "education">>,
      <<"out", " ", "of", " ", "classroom">>,
      <<"starting", " ", "a", " ", "business">>,
      <<"service", "/", "volunteer">>,
      <<"internship", " ", "participation">>>>

\* STOP_RE.search(ln), in any case
StopSearch(ln) == ContainsAny(LowerStr(ln), STOP_SECTIONS)

\* the heading test of a line read before the heading was found
QualifyingHeading(ln) ==
    /\ HeadingSearch(ln)
    /\ ~Contains(LowerStr(ln), <<"internship">>)
    /\ ~Contains(LowerStr(ln), <<"sample">>)

\* a heading that only has to hold the words TOP EMPLOYERS
AnyHeading(ln) == HeadingSearch(ln)

\* ln.upper().startswith(...) of a line whose white space is single spaces
UpperStartsWith(ln, words) ==
    /\ Len(ln) >= Len(words)
    /\ \A j \in 1..(Len(words) - 1) : Lower(ln[j]) = words[j]
    /\ SubWord(words[Len(words)], Lower(ln[Len(words)]))
          \in {"whole", "prefix", "both"}

\* the header-ish lines the loop skips after the heading
HeaderLine(ln) ==
    \/ HeadingSearch(ln)
    \/ UpperStartsWith(ln, <<"reported">>)
    \/ UpperStartsWith(ln, <<"top", " ", "employers">>)

\* \d[\d,]* on the whole of s
IsCountText(s) ==
    /\ s # <<>>
    /\ IsDigitTok(s[1])
    /\ \A j \in 1..Len(s) : IsDigitTok(s[j]) \/ s[j] = ","

\* the place of the last space of ln (0: none)
LastSpace(ln) ==
    IF \E i \in 1..Len(ln) : IsSpaceTok(ln[i])
    THEN CHOOSE i \in 1..Len(ln) :
            /\ IsSpaceTok(ln[i])
            /\ \A j \in (i + 1)..Len(ln) : ~IsSpaceTok(ln[j])
    ELSE 0

\* COUNT_LINE_RE.match(ln), ^(?P<name>.+?)\s+(?P<count>\d[\d,]*)\s*$ on a
\* line whose white space is single spaces and that is stripped: the count
\* is what follows the last space, the name what precedes it
CountLineMatch(ln) ==
    /\ LastSpace(ln) > 1
    /\ IsCountText(SubSeq(ln, LastSpace(ln) + 1, Len(ln)))

\* normalize_line(m.group("name"))
CountLineName(ln) == normalize_line(SubSeq(ln, 1, LastSpace(ln) - 1))

\* COUNT_ONLY_RE.match(ln), ^\d[\d,]*\s*$
CountOnlyMatch(ln) == IsCountText(RStrip(ln))

\* re.search(r"[A-Za-z]", ln)
HasLetter(ln) == \E i \in 1..Len(ln) : IsWordTok(ln[i])

\* the test of "if buffer" on a str
NonEmptyStr(s) == s # EmptyStr

\* the name a count line returns: with the buffered lines before it
EntryName(buffer, ln) ==
    IF NonEmptyStr(buffer)
    THEN normalize_line(buffer \o <<" ">> \o CountLineName(ln))
    ELSE CountLineName(ln)

\* buffer after a line of a wrapped name
BufferedName(buffer, ln) ==
    IF NonEmptyStr(buffer)
    THEN normalize_line(Strip(buffer \o <<" ">> \o ln))
    ELSE ln

\* the default of the parameter max_pages
max_pages == 25

\* [normalize_line(x) for x in text.splitlines()] of a page
TopPageLines(page) == [i \in 1..Len(page) |-> normalize_line(page[i])]

\* which branch of the loop body takes the line ln
TopLineKind(st, ln) ==
    IF ln = EmptyStr THEN "blank"
    ELSE IF ~st.collecting THEN "before"
    ELSE IF StopSearch(ln) THEN "stop"
    ELSE IF HeaderLine(ln) THEN "header"
    ELSE IF CountLineMatch(ln) THEN "count_line"
    ELSE IF NonEmptyStr(st.buffer) /\ CountOnlyMatch(ln) THEN "count_only"
    ELSE IF HasLetter(ln) /\ ~StopSearch(ln) THEN "name"
    ELSE "none"

\* a loop over the pages that starts every page with fresh locals
TopNextPageResets(st, pages) ==
    [st EXCEPT !.p = st.p + 1,
               !.lines = TopPageLines(pages[st.p + 1]),
               !.k = 1,
               !.collecting = FALSE,
               !.buffer = EmptyStr]

\* the locals when the loop over the pages takes its next page: collecting
\* and buffer are left as they are
TopNextPage(st, pages) ==
    [st EXCEPT !.p = st.p + 1,
               !.lines = TopPageLines(pages[st.p + 1]),
               !.k = 1]

\* the locals after a line read before the heading was found
TopBeforeHeading(st, ln) ==
    IF QualifyingHeading(ln)
    THEN [st EXCEPT !.collecting = TRUE, !.buffer = EmptyStr]
    ELSE st

\* the lines of the documents: the heading, a heading of the internship
\* section, a heading of a sample, an employer with its count, the first
\* line of a wrapped name, a count, a stop section, a header line that ends
\* in a count, and a line of white space
TL_HEADING == <<"TOP", " ", "EMPLOYERS">>
TL_HEADING_INTERNSHIP ==
    <<"Top", " ", "Employers", " ", "for", " ", "Internships">>
TL_HEADING_SAMPLE == <<"Sample", " ", "of", " ", "Top", " ", "Employers">>
TL_DELOITTE_63 == <<"Deloitte", " ", " ", "63">>
TL_AMAZON_WEB == <<"Amazon", " ", "Web">>
TL_1_041 == <<"1", ",", "041">>
TL_STOP == <<"Geographic", " ", "Distribution">>
TL_REPORTED_45 == <<"Reported", " ", "Employers", " ", "45">>
TL_BLANK == <<" ">>
TopLines ==
    {TL_HEADING, TL_HEADING_INTERNSHIP, TL_HEADING_SAMPLE, TL_DELOITTE_63,
     TL_AMAZON_WEB, TL_1_041, TL_STOP, TL_REPORTED_45, TL_BLANK}

\* the most lines of a document, and of a document behind pages of no text
MaxTopLines == 3
MaxLateLines == 2

\* n pages of no text
RECURSIVE BlankPages(_)
BlankPages(n) == IF n = 0 THEN <<>> ELSE <<<<>>>> \o BlankPages(n - 1)

\* the runs of lines of the documents: at most MaxTopLines lines, and that
\* many lines with a line and the heading before them
TopRuns ==
    UNION {[1..n -> TopLines] : n \in 0..MaxTopLines}
    \cup {<<x, TL_HEADING>> \o r :
             x \in TopLines, r \in [1..(MaxTopLines - 1) -> TopLines]}

\* a run of lines as one page and as two
TopSplits(q) ==
    {<<q>>} \cup {<<SubSeq(q, 1, c), SubSeq(q, c + 1, Len(q))>> :
                     c \in 0..Len(q)}

\* the documents: the runs on one or two pages, and short runs behind
\* max_pages - 1 pages of no text
TopDocs ==
    UNION {TopSplits(q) : q \in TopRuns}
    \cup UNION {{BlankPages(max_pages - 1) \o d : d \in TopSplits(q)} :
             q \in UNION {[1..n -> TopLines] : n \in 1..MaxLateLines}}

\* extract_top_employer is about to be called on a document
InitTop ==
    /\ script = "top"
    /\ chars = CharTables
    /\ unit_lookup = <<>>
    /\ arg \in {[f |-> "extract_top_employer", pages |-> d] : d \in TopDocs}
    /\ ret = <<>>
    /\ extracted = <<>>
    /\ files = <<>>
    /\ fi = 0
    /\ nxt = 0
    /\ page_index = 0
    /\ npages = 0
    /\ current_unit = None
    /\ rows = <<>>
    /\ phase = "call"
    /\ out = <<>>
    /\ faults = <<>>
    /\ parser = NoParser
    /\ extractor = NoExtractor

\* the steps of extract_top_employer leave all but extractor and phase
TopFrame ==
    UNCHANGED <<script, chars, unit_lookup, arg, ret, extracted, files, fi,
                nxt, page_index, npages, current_unit, rows, out, faults,
                parser>>

\* "collecting = False", "buffer = ''", the document is opened and n_pages
\* is set
TopBegin ==
    /\ phase = "call" /\ arg.f = "extract_top_employer"
    /\ extractor' = [p |-> 0,
                     n_pages |-> Min(max_pages, Len(arg.pages)),
                     lines |-> <<>>,
                     k |-> 1,
                     collecting |-> FALSE,
                     buffer |-> EmptyStr]
    /\ phase' = "pages"
    /\ TopFrame

\* the lines of the page are exhausted and there is a next page
TopPage ==
    /\ phase = "pages"
    /\ extractor.k > Len(extractor.lines)
    /\ extractor.p < extractor.n_pages
    /\ extractor' = TopNextPage(extractor, arg.pages)
    /\ phase' = phase
    /\ TopFrame

\* the loop over the lines has a line to take, and its branch is kind
TopAt(kind) ==
    /\ phase = "pages"
    /\ extractor.k <= Len(extractor.lines)
    /\ TopLineKind(extractor, extractor.lines[extractor.k]) = kind

\* the loop goes on to the next line with the locals of st
TopOn(st) ==
    /\ extractor' = [st EXCEPT !.k = extractor.k + 1]
    /\ phase' = phase
    /\ TopFrame

\* the function returns v: the locals are gone
TopReturn(v) ==
    /\ ret' = v
    /\ phase' = "returned"
    /\ UNCHANGED <<script, chars, unit_lookup, arg, extracted, files, fi,
                   nxt, page_index, npages, current_unit, rows, out, faults,
                   parser, extractor>>

\* "if not ln: continue"
TopBlank == TopAt("blank") /\ TopOn(extractor)

\* "if not collecting": the heading test, then continue
TopBefore ==
    /\ TopAt("before")
    /\ TopOn(TopBeforeHeading(extractor, extractor.lines[extractor.k]))

\* a stop section: return ""
TopStop == TopAt("stop") /\ TopReturn(EmptyStr)

\* a header-ish line: continue
TopHeader == TopAt("header") /\ TopOn(extractor)

\* an employer and its count on one line: return name
TopCountLine ==
    /\ TopAt("count_line")
    /\ TopReturn(EntryName(extractor.buffer, extractor.lines[extractor.k]))

\* a count after the lines of a wrapped name: return buffer
TopCountOnly == TopAt("count_only") /\ TopReturn(extractor.buffer)

\* a line of a wrapped name
TopName ==
    /\ TopAt("name")
    /\ TopOn([extractor EXCEPT
                !.buffer = BufferedName(extractor.buffer,
                                        extractor.lines[extractor.k])])

\* a line no branch takes
TopOther == TopAt("none") /\ TopOn(extractor)

\* the pages are exhausted: return ""
TopExhausted ==
    /\ phase = "pages"
    /\ extractor.k > Len(extractor.lines)
    /\ extractor.p = extractor.n_pages
    /\ TopReturn(EmptyStr)

NextTop ==
    \/ TopBegin \/ TopPage \/ TopBlank \/ TopBefore \/ TopStop \/ TopHeader
    \/ TopCountLine \/ TopCountOnly \/ TopName \/ TopOther \/ TopExhausted

\* the runs of extract_top_employer
SpecTop == InitTop /\ [][NextTop]_vars

-----------------------------------------------------------------------------
(* The claims *)

\* C1: every row of the file a script writes has a Unit that is a member of
\* unit_order, in every report type and after any documents and pages
C1_UnitsEnumerated ==
    phase = "done" => \A i \in 1..Len(out) : out[i].Unit \in UnitSet

\* a finished outcomes run that collected a row under a page title that
\* is no unit and still wrote rows
C1_Witness ==
    /\ script = "outcomes" /\ phase = "done" /\ out # <<>>
    /\ \E i \in 1..Len(rows) : UnitOfTitle(rows[i].title) \notin UnitSet

\* the years of the rows of the written file
OutYears == {out[i].Year : i \in 1..Len(out)}

\* the years the names of the files of the folder give, in the script's way
FolderYears ==
    {CASE script = "wage" -> infer_year_from_filename_wage(FileNames[files[i]])
       [] script = "employment" ->
             infer_year_from_filename_emp(FileNames[files[i]])
       [] OTHER -> ExtractYear(FileNames[files[i]]) :
       i \in 1..Len(files)} \ {NoYear}

\* C2: when a grid script is done, its file has |unit_order| x |years| rows,
\* exactly one for every pair of a unit of the enumeration and a year of the
\* grid, and the years of the grid are years of documents of the folder
C2_FullGrid ==
    phase = "done" =>
       /\ Len(out) = Len(unit_order) * Cardinality(OutYears)
       /\ OutYears \subseteq FolderYears
       /\ \A u \in UnitSet : \A y \in OutYears :
             Cardinality({i \in 1..Len(out) :
                            out[i].Unit = u /\ out[i].Year = y}) = 1

\* a finished run whose grid spans two years and holds collected records
C2_Witness ==
    phase = "done" /\ Cardinality(OutYears) = 2 /\ Len(rows) >= 2

\* C3: the years of the grid are the years of the documents of the folder:
\* every document with a resolvable year has its rows in the grid, also when
\* no record came from it
C3_YearsOfAllDocuments ==
    phase = "done" => FolderYears \subseteq OutYears

\* C4: the rows of the written file are in ascending order of year and,
\* within a year, in the order of unit_order
C4_Sorted ==
    phase = "done" =>
       \A i \in 1..Len(out) : \A j \in 1..Len(out) :
          i < j =>
             \/ out[i].Year < out[j].Year
             \/ /\ out[i].Year = out[j].Year
                /\ UnitIndex(out[i].Unit) < UnitIndex(out[j].Unit)

\* a finished run of a script whose grid is built units first (the
\* employment and outcomes scripts) over two years, read from a folder
\* listed with the later year first
C4_Witness ==
    /\ phase = "done" /\ script # "wage" /\ Cardinality(OutYears) = 2
    /\ Len(files) = 2
    /\ ExtractYear(FileNames[files[1]]) > ExtractYear(FileNames[files[2]])

\* C5: in the employment-search file, the cell of a (unit, year, method)
\* holds the greatest, by pct_to_num, of the percentages collected for it
\* on any page of any document of that year
C5_GreatestKept ==
    (script = "employment" /\ phase = "done") =>
       \A i \in 1..Len(rows) : \A k \in 1..Len(out) :
          (/\ out[k].Unit = canonicalize_unit_emp(rows[i].Unit)
           /\ out[k].Year = infer_year_from_filename_emp(FileNames[rows[i].pdf]))
          => pct_to_num(out[k].cells[rows[i].Method])
                >= pct_to_num(rows[i].percent)

\* the records collected for the (year, unit) of row k of the wage file
C6_Group(k) ==
    {i \in 1..Len(rows) :
        rows[i].Year = out[k].Year /\ rows[i].Unit = out[k].Unit}

\* C6: a row of the wage file whose (year, unit) has records holds the
\* figures of one of them that no other beats: none has a higher priority,
\* and none of the same priority has a smaller page number
C6_BestRecordKept ==
    (script = "wage" /\ phase = "done") =>
       \A k \in 1..Len(out) :
          C6_Group(k) # {} =>
             \E i \in C6_Group(k) :
                /\ \A j \in C6_Group(k) :
                      \/ rows[i].priority > rows[j].priority
                      \/ /\ rows[i].priority = rows[j].priority
                         /\ rows[i].page <= rows[j].page
                /\ out[k].n = rows[i].n
                /\ out[k].avg = rows[i].avg
                /\ out[k].med = rows[i].med

\* a finished wage run in which a total-only record was collected on an
\* earlier page than a full wage record of the same (year, unit)
C6_Witness ==
    /\ script = "wage" /\ phase = "done"
    /\ \E k \in 1..Len(out) : \E i, j \in C6_Group(k) :
          /\ rows[i].priority = PRIORITY_TOTAL
          /\ rows[j].priority = PRIORITY_WAGE
          /\ i < j
          /\ out[k].avg = rows[j].avg /\ out[k].avg # NoNumber

\* x < y on floats: false when either is NaN
FloatLess(x, y) == x # NaN /\ y # NaN /\ x < y

\* an explicit percentage: digits, optionally a point and digits, then %
ExplicitPercent(s) ==
    /\ s # <<>> /\ s[Len(s)] = "%"
    /\ NumLenAt(s, 1) >= 1 /\ NumLenAt(s, 1) = Len(s) - 1

\* C7: the number of "<1%" is strictly less than the number of every
\* explicit percentage ("0%", "0.3%", "1%", ...), and the number of the
\* empty string is strictly less than the number of "<1%", in pct_to_num
\* and in pct_to_float
C7_Ordered ==
    phase = "returned" =>
       /\ (arg.f = "pct_to_num" /\ ExplicitPercent(arg.x))
             => FloatLess(pct_to_num(<<"<", "1", "%">>), ret)
       /\ (arg.f = "pct_to_float" /\ ExplicitPercent(arg.x))
             => FloatLess(pct_to_float(<<"<", "1", "%">>), ret)
       /\ (arg.f = "pct_to_num" /\ arg.x = <<>>)
             => FloatLess(ret, pct_to_num(<<"<", "1", "%">>))
       /\ (arg.f = "pct_to_float" /\ arg.x = <<>>)
             => FloatLess(ret, pct_to_float(<<"<", "1", "%">>))

\* C8: a data page of the wage or employment script taken while no unit was
\* resolved in its document, on which no unit is found and after which no
\* page starts a unit, adds no record
C8_NoDefaultUnit ==
    [][(/\ script \in {"wage", "employment"}
        /\ phase = "reading" /\ nxt # 0
        /\ ~Truthy(current_unit)
        /\ ~Truthy(extracted[nxt].unit)
        /\ (script = "wage" => ~Truthy(lookahead_unit_start(nxt'))))
       => rows' = rows]_vars

\* C9: in the wage and employment scripts the carried unit is the unit
\* most recently resolved in the open document: a page on which a unit is
\* found makes it the carried unit, a data page without a unit of its own
\* (and, in the wage script, without a following page that starts a unit)
\* is recorded under the carried unit, and opening a document clears the
\* carried unit (the pages are those whose text was read)
C9_CarriedUnit ==
    [][/\ (/\ script \in {"wage", "employment"}
           /\ phase = "reading" /\ nxt # 0 /\ faults' = faults
           /\ Truthy(extracted[nxt].unit))
          => current_unit' = extracted[nxt].unit
       /\ (/\ script \in {"wage", "employment"}
           /\ phase = "reading" /\ nxt # 0 /\ faults' = faults
           /\ ~Truthy(extracted[nxt].unit)
           /\ Truthy(current_unit)
           /\ (script = "wage" => ~Truthy(lookahead_unit_start(nxt'))))
          => /\ current_unit' = current_unit
             /\ \A i \in (Len(rows) + 1)..Len(rows') :
                   rows'[i].Unit = current_unit
       /\ (/\ script \in {"wage", "employment"}
           /\ fi' = fi + 1 /\ nxt' # 0)
          => current_unit' = None]_vars

\* C10: in a document whose page with tables titled "College of Education"
\* is followed by a page without title that holds an outcomes table, the
\* records of the second page (Employed PT, count 3) are written in the row
\* of College of Education
C10_CarriedTitle ==
    (/\ script = "outcomes" /\ phase = "done"
     /\ Len(files) = 1 /\ ExtractYear(FileNames[files[1]]) # NoYear
     /\ rows = OutPageRows(extracted[1]) \o OutPageRows(extracted[2]))
    => \E k \in 1..Len(out) :
          /\ out[k].Unit = U_EDUC
          /\ O_EMPLOYED_PT \in DOMAIN out[k].cells.N
          /\ out[k].cells.N[O_EMPLOYED_PT] = 3

\* C11: the record of a wage page without a unit of its own takes the unit
\* the following page of the same document starts with, and only that: when
\* there is no following page in the document, or it does not start with a
\* unit (whatever units it mentions elsewhere), the record takes the carried
\* unit or the default
C11_LookaheadStartOnly ==
    [][(/\ script = "wage" /\ phase = "reading" /\ nxt # 0
        /\ Len(rows') = Len(rows) + 1
        /\ ~Truthy(extracted[nxt].unit))
       => rows'[Len(rows')].Unit =
             IF nxt' # 0 /\ extracted[nxt'].start \in UnitSet
             THEN extracted[nxt'].start
             ELSE OrElse(current_unit, U_UW)]_vars

\* the first page of a document, without a unit of its own, was recorded
\* under the unit the page after it starts with
C11_Witness ==
    /\ script = "wage"
    /\ \E i \in 1..Len(rows) :
          rows[i].page = 1 /\ rows[i].Unit = U_SPHL /\ rows[i].n = 120

\* the first of the units that is neither None nor empty, None when none is
FirstUnit(units) ==
    IF \E i \in 1..Len(units) : Truthy(units[i])
    THEN units[CHOOSE i \in 1..Len(units) :
                  Truthy(units[i]) /\ \A j \in 1..(i - 1) : ~Truthy(units[j])]
    ELSE None

\* C12: the unit of the record of a wage page is the first that succeeds of
\* the top-of-page scan, the footer scan, the anywhere-on-page scan, the
\* start of the following page and the carried unit (then the default); a
\* page without metrics consults no lookahead: it carries on the unit of its
\* own scans, or else the unit carried so far (of a page whose text was read)
C12_UnitPriority ==
    [][(script = "wage" /\ phase = "reading" /\ nxt # 0
        /\ ~extracted[nxt].blank /\ faults' = faults)
       => /\ Len(rows') = Len(rows) + 1
             => rows'[Len(rows')].Unit =
                   FirstUnit(<<extracted[nxt].top, extracted[nxt].footer,
                               extracted[nxt].anywhere,
                               IF nxt' = 0 THEN None
                               ELSE extracted[nxt'].start,
                               current_unit, U_UW>>)
          /\ Len(rows') = Len(rows)
             => current_unit' =
                   FirstUnit(<<extracted[nxt].top, extracted[nxt].footer,
                               extracted[nxt].anywhere, current_unit>>)]_vars

\* records were collected from a page whose top-of-page and footer scans
\* find different units, and from one whose footer and anywhere-on-page
\* scans do
C12_Witness ==
    /\ script = "wage"
    /\ \E i \in 1..Len(rows) : rows[i].Unit = U_SPHL /\ rows[i].n = 30
    /\ \E i \in 1..Len(rows) : rows[i].Unit = U_EDUC /\ rows[i].n = 30
    /\ \E p \in 1..Len(extracted) :
          /\ extracted[p].top = U_SPHL /\ extracted[p].footer = U_EDUC
    /\ \E p \in 1..Len(extracted) :
          /\ extracted[p].top = None /\ extracted[p].footer = U_EDUC
          /\ extracted[p].anywhere = U_INFO

\* C13: canonicalize_unit returns a unit of the enumeration or its argument
\* as it was given, character for character
C13_UnitOrUnchanged ==
    (phase = "returned" /\ arg.f = "canonicalize_unit")
    => (ret.once \in UnitSet \/ ret.once = arg.x)

\* C14: in every script canonicalize_unit maps each unit of the enumeration
\* to itself and each known variant to its unit, and applying it to its own
\* result changes nothing
C14_VariantsAndIdempotent ==
    (phase = "returned" /\ arg.f = "canonicalize_unit")
    => /\ arg.x \in UnitSet => ret.once = arg.x
       /\ \A v \in KnownVariants : arg.x = v[1] => ret.once = v[2]
       /\ ret.twice = ret.once


\* the lines parse_ep_from_text keeps of the page it was called on
C15_Lines == NonEmptyLines(arg.text)

\* the place of the first section-heading line among them, 0 without one
C15_Heading ==
    LET hits == {i \in 1..Len(C15_Lines) :
                   ContainsAny(LowerStr(C15_Lines[i]), SECTION_PHRASES)}
    IN IF hits = {} THEN 0 ELSE MinOf(hits)

\* the place of the first line after the heading that holds a stop marker,
\* one past the last line without one
C15_Stop ==
    LET hits == {i \in (C15_Heading + 1)..Len(C15_Lines) :
                   ContainsAny(LowerStr(C15_Lines[i]), STOP_MARKERS)}
    IN IF hits = {} THEN Len(C15_Lines) + 1 ELSE MinOf(hits)

\* the lines strictly between the two
C15_Window == SubSeq(C15_Lines, C15_Heading + 1, C15_Stop - 1)

\* the words, numbers and signs of a string
C15_Words(s) == {s[i] : i \in 1..Len(s)} \ {" "}

\* C15: parse_ep_from_text returns nothing for a page without a heading
\* line, and every word, number and sign of every label and value it
\* returns stands in a line strictly after the first heading line and
\* strictly before the first later line with a stop marker; the lines
\* outside take no part: the page cut down to the heading and the lines
\* between gives the same pairs, unless the page gives none
C15_SectionScoped ==
    (phase = "returned" /\ arg.f = "parse_ep_from_text") =>
        /\ C15_Heading = 0 => ret = <<>>
        /\ \A k \in 1..Len(ret) :
              \A t \in C15_Words(ret[k][1]) \cup C15_Words(ret[k][2]) :
                 \E l \in 1..Len(C15_Window) : t \in C15_Words(C15_Window[l])
        /\ \/ ret = <<>>
           \/ ret = parse_ep_from_text(<<C15_Lines[C15_Heading]>>
                                        \o C15_Window)

\* a page with a label and its value before the heading, then a pair
\* between the heading and the line with the stop marker: only the pair
\* between was returned
C15_Witness ==
    /\ phase = "returned" /\ arg.f = "parse_ep_from_text"
    /\ arg.text = <<EP_INLINE, EP_HEADING, <<"Other">>, <<"45", "%">>,
                    <<"Salary">> >>
    /\ ret = << <<<<"Other">>, <<"45", "%">>>> >>

\* the label/value pairs of a page of alternating lines, its k-th label
\* line and its k-th value line, both without the white space around them
C16_Pairs == (Len(arg.text) - 1) \div 2
C16_Label(k) == Strip(arg.text[2 * k])
C16_Value(k) == Strip(arg.text[2 * k + 1])

\* the page parse_ep_from_text was called on is a section heading followed
\* by valid-label lines and percent-only lines in turn, a label first, the
\* labels distinct
C16_Alternating ==
    /\ phase = "returned" /\ arg.f = "parse_ep_from_text"
    /\ Len(arg.text) >= 3 /\ Len(arg.text) = 2 * C16_Pairs + 1
    /\ ContainsAny(LowerStr(arg.text[1]), SECTION_PHRASES)
    /\ \A k \in 1..C16_Pairs :
          is_label_emp(arg.text[2 * k]) /\ is_percent(arg.text[2 * k + 1])
    /\ \A j, k \in 1..C16_Pairs : j # k => C16_Label(j) # C16_Label(k)

\* one pair per label and value, in the order of the page
C16_Expected ==
    SubSeq([k \in 1..C16_Pairs |-> <<C16_Label(k), C16_Value(k)>>],
           1, C16_Pairs)

\* C16 as stated: for a section heading followed by alternating valid-label
\* lines and percent-only lines with distinct labels, parse_ep_from_text
\* returns exactly one (label, value) pair per label and value, in order,
\* whatever the white space around the lines
C16_OnePairPerLabel == C16_Alternating => ret = C16_Expected

\* a label line the parser reads as a label: no stop marker, no heading
\* phrase, not "based on" with "responses", not "too few responses", no
\* percent value in it
C16_PlainLabel(ln) ==
    /\ ~ContainsAny(LowerStr(ln), STOP_MARKERS)
    /\ ~ContainsAny(LowerStr(ln), SECTION_PHRASES)
    /\ ~(Contains(LowerStr(ln), <<"based", " ", "on">>)
         /\ Contains(LowerStr(ln), <<"responses">>))
    /\ ~Contains(LowerStr(ln), <<"too", " ", "few", " ", "responses">>)
    /\ PctMatches(ln, 1) = <<>>

\* C16 amended: the same, for label lines that hold no stop marker, no
\* heading or response-count phrase, no "too few responses" and no percent
\* value, and that differ by more than the case of their letters
C16_OnePairPerPlainLabel ==
    (/\ C16_Alternating
     /\ \A k \in 1..C16_Pairs : C16_PlainLabel(arg.text[2 * k])
     /\ \A j, k \in 1..C16_Pairs :
           j # k => LowerStr(C16_Label(j)) # LowerStr(C16_Label(k)))
    => ret = C16_Expected

\* a heading and two pairs, one label and one value with white space
\* around them, returned as two pairs in order
C16_Witness ==
    /\ phase = "returned" /\ arg.f = "parse_ep_from_text"
    /\ arg.text = <<EP_HEADING, <<" ", "OTHER", " ">>,
                    <<" ", "50", " ", "%", " ">>, <<"Career", " ", "Fair">>,
                    <<"45", "%">> >>
    /\ ret = << <<<<"OTHER">>, <<"50", " ", "%">>>>,
                <<<<"Career", " ", "Fair">>, <<"45", "%">>>> >>

\* the rows drawn that hold a label, a count and a percent, and those whose
\* label holds one of the words employed, unplaced, unresolved
C17_FullRows == {ROW_EMPLOYED, ROW_OTHER, ROW_UNRESOLVED}
C17_KeywordRows == {ROW_EMPLOYED, ROW_UNRESOLVED, ROW_UNPLACED_NO_PERCENT}

\* the places of the first 15 rows of the table is_outcomes_table was
\* called on
C17_First15 == 1..Min(15, Len(arg.table))

\* C17: is_outcomes_table accepts a table if and only if at least 3 of its
\* first 15 rows yield a label, a count and a percent together and the
\* label of at least one of its first 15 rows holds employed, unplaced or
\* unresolved; the rows after the 15th do not count
C17_QualifiesIff ==
    (phase = "returned" /\ arg.f = "is_outcomes_table") =>
        /\ \A r \in TableRows :
              r \in C17_FullRows <=> /\ find_label(r) # <<>>
                                     /\ find_count(r) # <<>>
                                     /\ find_percent(r) # <<>>
        /\ ret.check <=>
              /\ Cardinality({k \in C17_First15 :
                                arg.table[k] \in C17_FullRows}) >= 3
              /\ \E k \in C17_First15 : arg.table[k] \in C17_KeywordRows

\* a table whose 13th, 14th and 15th rows are the only three of the first
\* 15 with a label, a count and a percent, and whose 16th row has them too:
\* it was accepted with the score 3
C17_Witness ==
    /\ phase = "returned" /\ arg.f = "is_outcomes_table"
    /\ arg.table = Padding(12) \o <<ROW_EMPLOYED, ROW_OTHER, ROW_UNRESOLVED,
                                    ROW_EMPLOYED>>
    /\ ret = [check |-> TRUE, score |-> 3]

\* the places of the tables of the page that are outcomes tables
C18_Qualifying ==
    {i \in 1..Len(arg.tables) :
       arg.tables[i] # <<>> /\ is_outcomes_table(arg.tables[i]).check}

C18_Score(i) == is_outcomes_table(arg.tables[i]).score

\* C18: the table the page loop parses is an outcomes table of the page
\* with the greatest score, the first of the page with that score, and the
\* records of the page are the parse of it; a page without an outcomes
\* table gives no record
C18_BestTableFirstOfTies ==
    (phase = "returned" /\ arg.f = "page") =>
        IF C18_Qualifying = {} THEN ret.best = <<>> /\ ret.items = <<>>
        ELSE \E i \in C18_Qualifying :
                /\ \A j \in C18_Qualifying : C18_Score(j) <= C18_Score(i)
                /\ \A j \in C18_Qualifying :
                      j < i => C18_Score(j) < C18_Score(i)
                /\ ret.best = <<arg.tables[i]>>
                /\ ret.items = parse_outcomes_table(arg.tables[i])

\* a page with a table of score 5 that is no outcomes table and then two
\* outcomes tables of score 3: the first of the two was parsed
C18_Witness ==
    /\ phase = "returned" /\ arg.f = "page"
    /\ arg.tables = <<TB_NO_KEYWORD, TB_A, TB_B>>
    /\ ret.best = <<TB_A>>
    /\ Len(ret.items) = 3

\* C19: parse_metrics on the sentence "Of the 120 internship experiences
\* that included an hourly wage, the average was $18.50 and the median was
\* $17.00" returns n = 120, avg = 18.50, med = 17.00 with the tag of a wage
\* record, and the same when the median is stated before the average
C19_WageSentence ==
    (/\ phase = "returned" /\ arg.f = "parse_metrics"
     /\ arg.text \in {<<WageSentence("average", AMOUNT_18_50,
                                     "median", AMOUNT_17_00)>>,
                      <<WageSentence("median", AMOUNT_17_00,
                                     "average", AMOUNT_18_50)>>})
    => ret = [n |-> 120, avg |-> 1850, med |-> 1700,
              priority |-> PRIORITY_WAGE]

\* the sentence with the median first was parsed
C19_Witness ==
    /\ phase = "returned" /\ arg.f = "parse_metrics"
    /\ arg.text = <<WageSentence("median", AMOUNT_17_00,
                                 "average", AMOUNT_18_50)>>
    /\ ret.n = 120 /\ ret.avg = 1850 /\ ret.med = 1700
    /\ ret.priority = PRIORITY_WAGE

\* C20: parse_metrics on the sentence "Of the 120 internship experiences
\* that included an hourly wage, the average was $250 and the median was
\* $17.00" returns n = 120 with no average and no median and the tag of a
\* total-only record
C20_FallsToTotalOnly ==
    (/\ phase = "returned" /\ arg.f = "parse_metrics"
     /\ arg.text = <<WageSentence("average", AMOUNT_250,
                                  "median", AMOUNT_17_00)>>)
    => ret = [n |-> 120, avg |-> NoNumber, med |-> NoNumber,
              priority |-> PRIORITY_TOTAL]


\* C21: failure isolation in every report type: a fault raised while
\* opening or scanning one document never aborts the batch, the run goes on
\* to the documents that follow and to the output
C21_FailureIsolation ==
    faults # <<>> => phase # "aborted"

\* the wage script alone: a fault leaves the batch running and every record
\* appended before it in place
WageFaultKeepsBatch ==
    [][faults' # faults =>
          /\ phase' = "reading"
          /\ Len(rows') >= Len(rows)
          /\ SubSeq(rows', 1, Len(rows)) = rows]_vars

\* C26: in the wage script a fault of the text extraction of one page, the
\* lookahead's extraction of the following page included, skips that page
\* only: the records appended before stay, the document stays the current
\* one, and after a fault of the lookahead the scan is at the page the
\* lookahead read, not past the end of the document
C26_PageFaultSkipsOnlyThePage ==
    [][(faults' # faults /\ faults'[Len(faults')].at # "open") =>
          /\ fi' = fi
          /\ SubSeq(rows', 1, Len(rows)) = rows
          /\ (faults'[Len(faults')].at = "lookahead" => nxt' # 0)]_vars


\* the year the cascade gives a file name: a leading year, else the second
\* year of the leftmost range, else the greatest year in the name, else none
C22_Cascade(fname) ==
    IF fname # <<>> /\ fname[1] \in YearToks THEN IntOf(fname[1])
    ELSE IF RangeYear(fname) # NoYear THEN RangeYear(fname)
    ELSE IF \E i \in 1..Len(fname) : fname[i] \in YearToks
    THEN CHOOSE y \in 2000..2099 :
            /\ \E i \in 1..Len(fname) :
                  fname[i] \in YearToks /\ IntOf(fname[i]) = y
            /\ \A i \in 1..Len(fname) :
                  fname[i] \in YearToks => IntOf(fname[i]) <= y
    ELSE NoYear

\* C22: every report type gives a file the year of the same cascade: the
\* leading 4-digit year, else the later year of a range of years, else the
\* greatest 4-digit year anywhere in the name, else no year
C22_SameCascade ==
    (phase = "returned" /\ arg.f = "infer_year")
       => ret = C22_Cascade(arg.x)

\* the employment search script alone follows the cascade
C22_EmploymentFollows ==
    (script = "employment" /\ phase = "returned" /\ arg.f = "infer_year")
       => ret = C22_Cascade(arg.x)


\* the lowered label has the phrase p in it
C23_Has(x, p) == Contains(Strip(CollapseWs(LowerStr(x))), p)

\* an internship or co-op variant
C23_Intern(x) ==
    C23_Has(x, <<"intern">>) \/ C23_Has(x, <<"co", "-", "op">>)
    \/ C23_Has(x, <<"coop">>)

\* a marker of off campus or of non-UMD
C23_OffMarker(x) ==
    \/ C23_Has(x, <<"non", "-", "umd">>) \/ C23_Has(x, <<"non", " ", "umd">>)
    \/ C23_Has(x, <<"off", " ", "campus">>)
    \/ C23_Has(x, <<"off", "-", "campus">>)

\* the label has a word one of the rules looks for
C23_AnyKeyword(x) ==
    \/ C23_Intern(x) \/ C23_Has(x, <<"career", " ", "fair">>)
    \/ C23_Has(x, <<"umd">>) \/ C23_Has(x, <<"handshake">>)
    \/ C23_Has(x, <<"hiresmith">>) \/ C23_Has(x, <<"careers", "4", "terps">>)
    \/ C23_Has(x, <<"interview">>) \/ C23_Has(x, <<"family">>)
    \/ C23_Has(x, <<"friends">>) \/ C23_Has(x, <<"faculty">>)
    \/ C23_Has(x, <<"staff">>) \/ C23_Has(x, <<"currently", " ", "employed">>)
    \/ C23_Has(x, <<"newspaper">>)
    \/ Strip(CollapseWs(LowerStr(x))) = <<"other">>

\* C23: the taxonomy of the employment labels is ordered, the first rule
\* that matches wins: a label with an internship or co-op variant is of
\* the internship category whatever else it holds; a career fair label is
\* off campus exactly when it also holds an off-campus or non-UMD marker
\* and on campus otherwise; a label no rule matches has no category and
\* leaves no row
C23_Taxonomy ==
    (phase = "returned" /\ arg.f = "method_key") =>
       /\ C23_Intern(arg.x) => ret.key = M_INTERNSHIP
       /\ (~C23_Intern(arg.x) /\ C23_Has(arg.x, <<"career", " ", "fair">>))
             => ret.key = IF C23_OffMarker(arg.x)
                          THEN M_FAIRS_OFF ELSE M_FAIRS_ON
       /\ ~C23_AnyKeyword(arg.x) => ret.key = NoMethod
       /\ ret.key = NoMethod => ret.items = <<>>
       /\ ret.key # NoMethod
             => /\ Len(ret.items) = 1
                /\ ret.items[1].Method = ret.key
                /\ ret.items[1].method = arg.x

\* method_key returned the internship category for a label that names a
\* career fair as well
C23_Witness ==
    /\ phase = "returned" /\ arg.f = "method_key"
    /\ arg.x = <<"Career", " ", "Fair", " ", "Internship">>
    /\ ret.key = M_INTERNSHIP


\* C24: in the employment search script the records of a section page on
\* which the top-of-page scan finds a unit are recorded under that unit,
\* not under the unit carried from the pages before
C24_OwnUnitFirst ==
    [][(/\ script = "employment" /\ phase = "reading" /\ nxt # 0
        /\ faults' = faults
        /\ extracted[nxt].section
        /\ Truthy(extracted[nxt].unit))
       => \A i \in (Len(rows) + 1)..Len(rows') :
             rows'[i].Unit = extracted[nxt].unit]_vars


\* the value v is a number of L that follows one of the words with no
\* sentence terminator between the word and the number
C25_FromAnchor(L, words, v) ==
    \E a \in 1..Len(L) : \E r \in (a + 1)..Len(L) :
       /\ L[a] \in words
       /\ NumLenAt(L, r) > 0 /\ NumValAt(L, r) = v
       /\ \A k \in a..(r - 1) : L[k] \notin Terminators

\* C25: in a full match of a wage pattern the average and the median are
\* read in the sentence of their anchor words: neither is a number that
\* stands beyond a ".", "?" or "!" that follows the anchor
C25_WithinSentence ==
    (phase = "returned" /\ arg.f = "parse_metrics"
     /\ ret.priority = PRIORITY_WAGE)
    => /\ C25_FromAnchor(LowerStr(strip_chart_artifacts(arg.text)),
                         AverageWords, ret.avg)
       /\ C25_FromAnchor(LowerStr(strip_chart_artifacts(arg.text)),
                         MedianWords, ret.med)


\* the statement-by-statement run returns what parse_ep_from_text returns
ParserAgrees ==
    (phase = "returned" /\ arg.f = "parse_ep_from_text")
       => ret = parse_ep_from_text(arg.text)

\* C27: at every point of the scan of parse_ep_from_text the pending label
\* and the pending value are not both set, a pending label that is set
\* passes is_label, and every pair emitted so far has a label that passes
\* is_label and a value that passes is_percent
C27_PendingSlots ==
    parser # NoParser =>
       /\ ~(Truthy(parser.pending_label) /\ Truthy(parser.pending_pct))
       /\ Truthy(parser.pending_label) => is_label_emp(parser.pending_label)
       /\ \A k \in 1..Len(parser.out) :
             /\ is_label_emp(parser.out[k][1])
             /\ is_percent(parser.out[k][2])

\* a pair with the value "50 %" was emitted and a label is
\* pending
C27_Witness ==
    /\ parser # NoParser
    /\ \E k \in 1..Len(parser.out) : parser.out[k] = <<SL_OTHER, SL_50>>
    /\ parser.pending_label = SL_CAREER_FAIR


\* the line the loop is at passes the tests for a stop marker and for
\* boilerplate, so that one of the three branches can take it
C28_Classified ==
    /\ phase = "scan" /\ parser.i <= Len(parser.lines)
    /\ ~ContainsAny(LowerStr(parser.lines[parser.i]), STOP_MARKERS)
    /\ ~ContainsAny(LowerStr(parser.lines[parser.i]), SECTION_PHRASES)
    /\ ~(/\ Contains(LowerStr(parser.lines[parser.i]), <<"based", " ", "on">>)
         /\ Contains(LowerStr(parser.lines[parser.i]), <<"responses">>))

\* C28: on a line that is a value and nothing else, a pending label that
\* is set and valid is emitted with this value and both slots are cleared;
\* without one nothing is emitted and this value becomes the pending value,
\* in the place of any that was pending
C28_ValueOnlyLine ==
    [][(C28_Classified /\ is_percent(parser.lines[parser.i]))
       => IF /\ Truthy(parser.pending_label)
             /\ is_label_emp(parser.pending_label)
          THEN /\ parser'.out =
                     Append(parser.out, <<parser.pending_label,
                                          parser.lines[parser.i]>>)
               /\ parser'.pending_label = None
               /\ parser'.pending_pct = None
          ELSE /\ parser'.out = parser.out
               /\ parser'.pending_pct = parser.lines[parser.i]
               /\ parser'.pending_label = parser.pending_label]_vars

\* a value was emitted with the label that was pending, and the value
\* after it, with no label pending, became the pending value
C28_Witness ==
    /\ parser # NoParser
    /\ parser.lines = <<EP_HEADING, SL_OTHER, SL_45, SL_50>>
    /\ parser.i = 5
    /\ parser.out = << <<SL_OTHER, SL_45>> >>
    /\ parser.pending_label = None
    /\ parser.pending_pct = SL_50

\* C29: on a line that is a valid label and holds no value, a pending
\* value is emitted with this line as its label and both slots are
\* cleared; without one, a pending label gets this line appended after a
\* single space; without either the line becomes the pending label
C29_LabelOnlyLine ==
    [][(/\ C28_Classified
        /\ PctMatches(parser.lines[parser.i], 1) = <<>>
        /\ is_label_emp(parser.lines[parser.i]))
       => IF Truthy(parser.pending_pct)
          THEN /\ parser'.out =
                     Append(parser.out, <<parser.lines[parser.i],
                                          parser.pending_pct>>)
               /\ parser'.pending_label = None
               /\ parser'.pending_pct = None
          ELSE /\ parser'.out = parser.out
               /\ parser'.pending_pct = parser.pending_pct
               /\ parser'.pending_label =
                     IF Truthy(parser.pending_label)
                     THEN parser.pending_label \o <<" ">>
                          \o parser.lines[parser.i]
                     ELSE parser.lines[parser.i]]_vars

\* a label was appended to the pending label, and the label of two lines
\* was emitted with the value that followed
C29_Witness ==
    /\ parser # NoParser
    /\ parser.lines = <<EP_HEADING, SL_CAREER_FAIR, SL_OTHER, SL_45>>
    /\ parser.out = << <<SL_CAREER_FAIR \o <<" ">> \o SL_OTHER, SL_45>> >>

\* the pairs of an inline line: for each value, from left to right, the
\* text since the value before it (or the start of the line) without its
\* separators, or the pending label when that text is empty, if it is a
\* valid label
C30_Pairs(ln, pending) ==
    LET ms == PctMatches(ln, 1)
        from(k) == IF k = 1 THEN 1 ELSE ms[k - 1][3]
        cand(k) == StripSeparators(SubSeq(ln, from(k), ms[k][1] - 1))
        lab(k) == IF cand(k) = <<>> /\ Truthy(pending) THEN pending
                  ELSE cand(k)
        val(k) == SelectSeq(SubSeq(ln, ms[k][1], ms[k][2] - 1),
                            LAMBDA t : t # " ") \o <<"%">>
        idx == SelectSeq([k \in 1..Len(ms) |-> k],
                         LAMBDA k : lab(k) # <<>> /\ is_label_emp(lab(k)))
    IN SubSeq([j \in 1..Len(idx) |-> <<lab(idx[j]), val(idx[j])>>],
              1, Len(idx))

\* C30: on a line with one value or more inside it, each value is emitted
\* with its candidate label (the text since the value before it, trimmed
\* of separators, or the pending label when that is empty) when the label
\* is valid, and after the line both slots are clear whether or not
\* any pair was emitted
C30_InlineLine ==
    [][(/\ C28_Classified
        /\ ~is_percent(parser.lines[parser.i])
        /\ PctMatches(parser.lines[parser.i], 1) # <<>>)
       => /\ parser'.out =
                parser.out \o C30_Pairs(parser.lines[parser.i],
                                        parser.pending_label)
          /\ parser'.pending_label = None
          /\ parser'.pending_pct = None]_vars

\* the line "Method 9% - 7%" was taken while a label was pending: nothing
\* for the heading word, the pending label for the value without text
\* before it
C30_Witness ==
    /\ parser # NoParser
    /\ parser.lines = <<EP_HEADING, SL_OTHER, SL_METHOD_9_7>>
    /\ parser.i = 4
    /\ parser.out = << <<SL_OTHER, <<"7", "%">>>> >>
    /\ parser.pending_label = None


\* the line is a response-rate disclaimer or repeats heading text
C31_Boilerplate(ln) ==
    \/ /\ Contains(LowerStr(ln), <<"based", " ", "on">>)
       /\ Contains(LowerStr(ln), <<"responses">>)
    \/ ContainsAny(LowerStr(ln), SECTION_PHRASES)

\* the line is no value, holds no value and is no valid label
C31_Nothing(ln) ==
    /\ ~is_percent(ln)
    /\ PctMatches(ln, 1) = <<>>
    /\ ~is_label_emp(ln)

\* C31: a line of boilerplate inside the section (a response-rate
\* disclaimer, repeated heading text), and a line that is no value, holds
\* no value and is no valid label, leave the pending label, the pending
\* value and the emitted pairs as they were
C31_Frame ==
    [][(/\ phase = "scan" /\ parser.i <= Len(parser.lines)
        /\ \/ C31_Boilerplate(parser.lines[parser.i])
           \/ C31_Nothing(parser.lines[parser.i]))
       => /\ parser'.out = parser.out
          /\ parser'.pending_label = parser.pending_label
          /\ parser'.pending_pct = parser.pending_pct]_vars

\* a disclaimer was taken while a label was pending, and the value after
\* it was emitted with that label
C31_Witness ==
    /\ parser # NoParser
    /\ parser.lines = <<EP_HEADING, SL_OTHER, SL_BASED_ON, SL_45>>
    /\ parser.i = 5
    /\ parser.out = << <<SL_OTHER, SL_45>> >>


\* two pairs with the same label, but for its case, and the same value
C32_SameKey(a, b) == LowerStr(a[1]) = LowerStr(b[1]) /\ a[2] = b[2]

\* the places of the emitted pairs that repeat no earlier one
C32_FirstSeen(emitted) ==
    {k \in 1..Len(emitted) :
        \A j \in 1..(k - 1) : ~C32_SameKey(emitted[j], emitted[k])}

\* C32: what parse_ep_from_text returns has no two pairs with the same
\* (lower-cased label, value), and it is the emitted pairs without the
\* later repetitions, in the order in which they were first seen
C32_Dedup ==
    (phase = "returned" /\ parser # NoParser)
    => /\ \A i, j \in 1..Len(ret) : i < j => ~C32_SameKey(ret[i], ret[j])
       /\ Len(ret) = Cardinality(C32_FirstSeen(parser.out))
       /\ \A m \in 1..Len(ret) :
             \E k \in C32_FirstSeen(parser.out) :
                /\ ret[m] = parser.out[k]
                /\ Cardinality({j \in C32_FirstSeen(parser.out) : j < k})
                      = m - 1

\* the pair (OTHER, 45%) was emitted from one line, then (Other, 45%)
\* from a label and the value after it: the second one is not in the
\* result
C32_Witness ==
    /\ phase = "returned" /\ parser # NoParser
    /\ parser.out = << <<<<"OTHER">>, SL_45>>, <<SL_OTHER, SL_45>> >>
    /\ ret = << <<<<"OTHER">>, SL_45>> >>


\* a full wage pattern or the single-experience pattern was accepted on
\* the page
C33_WageAccepted(low) ==
    /\ Contains(low, <<"hourly">>)
    /\ (Contains(low, <<"wage">>) \/ Contains(low, <<"rate">>))
    /\ Contains(low, <<"median">>)
    /\ (Contains(low, <<"average">>) \/ Contains(low, <<"mean">>))
    /\ \/ WagePatternResult(low) # NoMatch
       \/ (0 < OneWageSearch(low) /\ OneWageSearch(low) < 100 * 100)

\* C33: what parse_metrics returns is well-formed: a record of the high
\* quality has a count and an average and a median strictly between 0 and
\* 100; a record of the low quality has a count above 0 and neither
\* average nor median, and is returned only when no wage pattern was
\* accepted on the page; anything else is no record
C33_WellFormed ==
    (phase = "returned" /\ arg.f = "parse_metrics")
    => \/ /\ ret.priority = PRIORITY_WAGE
          /\ ret.n # NoNumber
          /\ 0 < ret.avg /\ ret.avg < 100 * 100
          /\ 0 < ret.med /\ ret.med < 100 * 100
       \/ /\ ret.priority = PRIORITY_TOTAL
          /\ ret.n > 0
          /\ ret.avg = NoNumber /\ ret.med = NoNumber
          /\ ~C33_WageAccepted(LowerStr(strip_chart_artifacts(arg.text)))
       \/ ret = NoMetrics

\* the sentence with an average of $100 matched and was not accepted: the
\* line with the total gave a record of the low quality
C33_Witness ==
    /\ phase = "returned" /\ arg.f = "parse_metrics"
    /\ arg.text = <<WageSentence("average", AMOUNT_100,
                                 "median", AMOUNT_17_00), TOTAL_LINE>>
    /\ ret = [n |-> 120, avg |-> NoNumber, med |-> NoNumber,
              priority |-> PRIORITY_TOTAL]


\* the non-empty lines of the first max_pages pages, in reading order
C34_Lines(pages) ==
    SelectSeq(Flat([p \in 1..Min(max_pages, Len(pages)) |->
                      TopPageLines(pages[p])]),
              LAMBDA ln : ln # EmptyStr)

\* the place of the first qualifying heading (0: none)
C34_Heading(L) ==
    IF \E i \in 1..Len(L) : QualifyingHeading(L[i])
    THEN MinOf({i \in 1..Len(L) : QualifyingHeading(L[i])})
    ELSE 0

\* the place of the first stop-section line after the heading (past the
\* end: none)
C34_Stop(L) ==
    MinOf({i \in (C34_Heading(L) + 1)..Len(L) : StopSearch(L[i])}
          \cup {Len(L) + 1})

\* the lines of a wrapped name between the heading and line e
C34_Wrapped(L, e) ==
    SelectSeq(SubSeq(L, C34_Heading(L) + 1, e - 1),
              LAMBDA ln : ~HeaderLine(ln) /\ HasLetter(ln))

\* line e is an employer entry: a name that ends in a count, or a count
\* that follows the lines of a wrapped name; a header line is no entry
C34_Entry(L, e) ==
    /\ ~HeaderLine(L[e])
    /\ \/ CountLineMatch(L[e])
       \/ (CountOnlyMatch(L[e]) /\ C34_Wrapped(L, e) # <<>>)

\* the entries after the heading and before the stop-section line
C34_Entries(L) ==
    IF C34_Heading(L) = 0 THEN {}
    ELSE {e \in (C34_Heading(L) + 1)..(C34_Stop(L) - 1) : C34_Entry(L, e)}

\* the name of entry e with the lines of its wrapped name before it
C34_Name(L, e) ==
    JoinWs(C34_Wrapped(L, e)
           \o (IF CountLineMatch(L[e]) THEN <<CountLineName(L[e])>>
               ELSE <<>>))

\* C34: extract_top_employer returns a non-empty name only if an employer
\* entry lies after the first qualifying TOP EMPLOYERS heading and before
\* the first stop-section line that follows it, within the first 25 pages
\* taken as one run of lines (the heading and the lines of a wrapped name
\* may be on an earlier page than the entry); the name is that of the first
\* such entry, with the lines of its wrapped name before it, and no line
\* before the heading is part of it; with no such entry it returns ""
C34_FirstEntry ==
    (phase = "returned" /\ arg.f = "extract_top_employer")
    => IF C34_Entries(C34_Lines(arg.pages)) # {}
       THEN ret = C34_Name(C34_Lines(arg.pages),
                           MinOf(C34_Entries(C34_Lines(arg.pages))))
       ELSE ret = EmptyStr

\* an employer with its count before the heading, the heading and the
\* first line of a wrapped name on the first page, the count on the
\* second: the wrapped name was returned
C34_Witness ==
    /\ phase = "returned" /\ arg.f = "extract_top_employer"
    /\ arg.pages = <<<<TL_DELOITTE_63, TL_HEADING, TL_AMAZON_WEB>>,
                     <<TL_1_041>>>>
    /\ ret = TL_AMAZON_WEB


\* the last row of the table given to parse_outcomes_table, and what the
\* function returns on the rows before it
C35_Row == arg.table[Len(arg.table)]
C35_Before == parse_outcomes_table(SubSeq(arg.table, 1, Len(arg.table) - 1))

\* a row that holds a label and nothing else
C35_LabelOnly(r) ==
    RowLabel(r) # <<>> /\ find_count(r) = <<>> /\ find_percent(r) = <<>>

\* s ends with t
C35_EndsWith(s, t) ==
    Len(s) >= Len(t) /\ SubSeq(s, Len(s) - Len(t) + 1, Len(s)) = t

\* the last row made an output row: the output rows before it are as they
\* were, and the new one has a label that is not empty and ends with the
\* label of the row if it has one, the count of the row, and the percent of
\* the row or the label "total" or one that starts with "not seeking"
C35_Emits ==
    /\ Len(ret) = Len(C35_Before) + 1
    /\ SubSeq(ret, 1, Len(C35_Before)) = C35_Before
    /\ ret[Len(ret)].outcome # <<>>
    /\ C35_EndsWith(ret[Len(ret)].outcome, RowLabel(C35_Row))
    /\ ret[Len(ret)].count = find_count(C35_Row)
    /\ ret[Len(ret)].count # <<>>
    /\ ret[Len(ret)].percent = find_percent(C35_Row)
    /\ \/ ret[Len(ret)].percent # <<>>
       \/ LowerStr(ret[Len(ret)].outcome) = <<"total">>
       \/ StartsNotSeeking(ret[Len(ret)].outcome)

\* the last row holds only a label: no output row is made, and the label
\* is appended to that of the last output row, if there is one
C35_Wraps ==
    /\ Len(ret) = Len(C35_Before)
    /\ C35_Before # <<>> =>
          ret = [C35_Before EXCEPT ![Len(ret)].outcome =
                    Strip(@ \o <<" ">> \o RowLabel(C35_Row))]

\* the row before the last holds only a label, no output row was made up
\* to it, and the last row made one: its label has the held label before
\* the label of the last row
C35_Held ==
    (/\ Len(arg.table) >= 2
     /\ C35_LabelOnly(arg.table[Len(arg.table) - 1])
     /\ C35_Before = <<>>
     /\ Len(ret) = 1)
    => C35_EndsWith(ret[1].outcome,
          IF RowLabel(C35_Row) = <<>>
          THEN RowLabel(arg.table[Len(arg.table) - 1])
          ELSE RowLabel(arg.table[Len(arg.table) - 1]) \o <<" ">>
               \o RowLabel(C35_Row))

\* C35: parse_outcomes_table makes an output row only for a row with a
\* label that is not empty (its own or one carried to it), a count, and a
\* percent or the label "total" or a label that starts with "not seeking";
\* a row that holds only a label makes no output row: its label is appended
\* to the label of the last output row if there is one, and is otherwise
\* held and put before the label of the next row
C35_RowsEmitted ==
    (phase = "returned" /\ arg.f = "parse_outcomes_table"
     /\ arg.table # <<>>)
    => /\ ret # C35_Before /\ ~C35_LabelOnly(C35_Row) => C35_Emits
       /\ C35_LabelOnly(C35_Row) => C35_Wraps
       /\ C35_Held

\* a row with a label, a count and a percent, then the second line of its
\* label: one output row, with the label of both lines
C35_Witness ==
    /\ phase = "returned" /\ arg.f = "parse_outcomes_table"
    /\ arg.table = <<ROW_EMPLOYED, ROW_FULL_TIME>>
    /\ ret = <<[outcome |-> <<"Employed", " ", "FT", " ", "Full", "-", "Time">>,
               count |-> <<"10">>, percent |-> <<"50", "%">>]>>


\* the percent of outcome o is present in the cells c of a row of the output
C36_Present(c, o) ==
    o \in DOMAIN c.P /\ c.P[o] # NA /\ c.P[o] # EmptyStr

\* the Placement Rate % cell of the cells c is empty: the column is not
\* there, or the cell has no value
C36_Empty(c) == c.rate.kind \in {"missing", "no column"}

\* C36: in every row of the outcomes output the Placement Rate % cell has a
\* value only when Unplaced % and Unresolved % of the row are both present,
\* and is then 100 minus the one minus the other, to one decimal, with
\* "<1%" read as 1; when either is missing the cell is empty
C36_PlacementRate ==
    (script = "outcomes" /\ phase = "done")
    => \A i \in 1..Len(out) :
          IF /\ C36_Present(out[i].cells, O_UNPLACED)
             /\ C36_Present(out[i].cells, O_UNRESOLVED)
          THEN out[i].cells.rate =
                  [kind |-> "value",
                   tenths |-> RoundTenths(
                      10000 - pct_to_float(out[i].cells.P[O_UNPLACED])
                            - pct_to_float(out[i].cells.P[O_UNRESOLVED]))]
          ELSE C36_Empty(out[i].cells)

=========================================================================
